---------------------------- MODULE Spec2Model ----------------------------
(***************************************************************************)
(* A model of aws-auth (src/src/aws-credentials-manager.ts, index.ts):     *)
(* the two INI-style files ~/.aws/credentials and ~/.aws/config, their     *)
(* parsers and writers, and the four operations addProfile, useProfile,    *)
(* listProfiles and removeProfile.                                         *)
(*                                                                         *)
(* Text is modelled character by character: a text is a sequence of        *)
(* one-character strings, a file is a text, and the parsers split, trim    *)
(* and match it the way the regular expressions of the source do.  A value *)
(* that may be undefined is a sequence of length at most one: <<>> for     *)
(* undefined, <<t>> for the text t.                                        *)
(***************************************************************************)
EXTENDS Integers, Sequences, FiniteSets

(***************************************************************************)
(* Characters and text helpers (String.prototype.split / trim / match).    *)
(***************************************************************************)
NL == "\n"

\* String.prototype.trim strips these (the model's alphabet holds no other
\* white space).
WhiteSpace == {" ", "\t", "\r", "\n"}

\* "." of a regular expression matches no line terminator.
LineTerminators == {"\n", "\r"}

Digits == {"0", "1", "2", "3", "4", "5", "6", "7", "8", "9"}

LowerCase == {"a", "b", "c", "d", "e", "f", "g", "h", "i", "j", "k", "l", "m",
              "n", "o", "p", "q", "r", "s", "t", "u", "v", "w", "x", "y", "z"}

Undefined == <<>>

Some(t) == <<t>>

\* The least index i >= from with s[i] = c, or 0.
RECURSIVE IndexFrom(_, _, _)
IndexFrom(s, c, from) ==
  IF from > Len(s) THEN 0
  ELSE IF s[from] = c THEN from
  ELSE IndexFrom(s, c, from + 1)

\* content.split('\n')
RECURSIVE SplitLines(_)
SplitLines(s) ==
  LET i == IndexFrom(s, NL, 1)
  IN  IF i = 0 THEN <<s>>
      ELSE <<SubSeq(s, 1, i - 1)>> \o SplitLines(SubSeq(s, i + 1, Len(s)))

RECURSIVE FirstNonSpace(_, _)
FirstNonSpace(s, i) ==
  IF i > Len(s) THEN i
  ELSE IF s[i] \in WhiteSpace THEN FirstNonSpace(s, i + 1)
  ELSE i

RECURSIVE LastNonSpace(_, _)
LastNonSpace(s, i) ==
  IF i < 1 THEN i
  ELSE IF s[i] \in WhiteSpace THEN LastNonSpace(s, i - 1)
  ELSE i

\* String.prototype.trim
Trim(s) == SubSeq(s, FirstNonSpace(s, 1), LastNonSpace(s, Len(s)))

StartsWith(s, p) == Len(s) >= Len(p) /\ SubSeq(s, 1, Len(p)) = p

Contains(s, c) == IndexFrom(s, c, 1) # 0

(***************************************************************************)
(* The literals of the source.                                             *)
(***************************************************************************)
KeyAccessKeyId ==
  <<"a","w","s","_","a","c","c","e","s","s","_","k","e","y","_","i","d">>

KeySecretAccessKey ==
  <<"a","w","s","_","s","e","c","r","e","t","_","a","c","c","e","s","s","_","k","e","y">>

KeyRegion == <<"r","e","g","i","o","n">>

DefaultName == <<"d","e","f","a","u","l","t">>

ProfilePrefix == <<"p","r","o","f","i","l","e"," ">>

\* `${undefined}` in a template literal
UndefinedText == <<"u","n","d","e","f","i","n","e","d">>

NotSetText == <<"n","o","t"," ","s","e","t">>

Assign == <<" ","=", " ">>

(***************************************************************************)
(* A JavaScript object used as a dictionary (Record<string, T> = {}).      *)
(* It is the sequence of its own entries in property order: the keys that  *)
(* are array indices first, in ascending numeric order, then the other     *)
(* keys in insertion order.  A read of a key the object does not own falls *)
(* through to Object.prototype.                                            *)
(***************************************************************************)
DigitValue(c) ==
  CHOOSE d \in 0..9 : c = <<"0","1","2","3","4","5","6","7","8","9">>[d + 1]

\* a < b for two canonical numeric strings (no leading zero): the shorter is
\* the smaller, and of two of one length the one smaller at the first
\* digit where they differ.
RECURSIVE DigitsLess(_, _, _)
DigitsLess(a, b, i) ==
  IF i > Len(a) THEN FALSE
  ELSE IF a[i] # b[i] THEN DigitValue(a[i]) < DigitValue(b[i])
  ELSE DigitsLess(a, b, i + 1)

NumericLess(a, b) ==
  \/ Len(a) < Len(b)
  \/ Len(a) = Len(b) /\ DigitsLess(a, b, 1)

\* 2^32 - 2, the largest array index.
MaxArrayIndex == <<"4","2","9","4","9","6","7","2","9","4">>

\* A canonical numeric string not above 2^32 - 2.
IsArrayIndex(k) ==
  /\ Len(k) >= 1
  /\ \A i \in 1..Len(k) : k[i] \in Digits
  /\ (Len(k) > 1 => k[1] # "0")
  /\ ~NumericLess(MaxArrayIndex, k)

\* Properties every object inherits from Object.prototype (functions).
ObjectPrototypeProps ==
  { <<"c","o","n","s","t","r","u","c","t","o","r">>,
    <<"t","o","S","t","r","i","n","g">>,
    <<"v","a","l","u","e","O","f">>,
    <<"h","a","s","O","w","n","P","r","o","p","e","r","t","y">> }

EmptyRecord == [accessKeyId |-> Undefined, secretAccessKey |-> Undefined,
                region |-> Undefined]

\* Reading accessKeyId, secretAccessKey or region of an inherited function
\* gives undefined.
InheritedFunction == EmptyRecord

ObjKeys(obj) == [i \in 1..Len(obj) |-> obj[i].name]

ObjHasOwn(obj, k) == \E i \in 1..Len(obj) : obj[i].name = k

ObjIndexOf(obj, k) == CHOOSE i \in 1..Len(obj) : obj[i].name = k

\* obj[k]: Undefined, or Some(value).
ObjGet(obj, k) ==
  IF ObjHasOwn(obj, k) THEN Some(obj[ObjIndexOf(obj, k)].val)
  ELSE IF k \in ObjectPrototypeProps THEN Some(InheritedFunction)
  ELSE Undefined

\* The place a new key takes among the own keys.
ObjInsertAt(obj, k) ==
  IF IsArrayIndex(k)
  THEN Cardinality({i \in 1..Len(obj) :
                      /\ IsArrayIndex(obj[i].name)
                      /\ NumericLess(obj[i].name, k)}) + 1
  ELSE Len(obj) + 1

\* obj[k] = v
ObjSet(obj, k, v) ==
  IF ObjHasOwn(obj, k)
  THEN [obj EXCEPT ![ObjIndexOf(obj, k)] = [name |-> k, val |-> v]]
  ELSE LET p == ObjInsertAt(obj, k)
       IN  SubSeq(obj, 1, p - 1) \o <<[name |-> k, val |-> v]>>
             \o SubSeq(obj, p, Len(obj))

\* delete obj[k]
ObjDelete(obj, k) ==
  IF ObjHasOwn(obj, k)
  THEN LET p == ObjIndexOf(obj, k)
       IN  SubSeq(obj, 1, p - 1) \o SubSeq(obj, p + 1, Len(obj))
  ELSE obj

(***************************************************************************)
(* The parsers.                                                            *)
(***************************************************************************)
\* trimmed.match(/^\[([^\]]+)\]$/): Undefined, or Some(name).
MatchCredentialsHeader(t) ==
  IF /\ Len(t) >= 3
     /\ t[1] = "["
     /\ t[Len(t)] = "]"
     /\ ~Contains(SubSeq(t, 2, Len(t) - 1), "]")
  THEN Some(SubSeq(t, 2, Len(t) - 1))
  ELSE Undefined

\* trimmed.match(/^\[(?:profile )?([^\]]+)\]$/): Undefined, or Some(name).
MatchConfigHeader(t) ==
  IF /\ Len(t) >= 3
     /\ t[1] = "["
     /\ t[Len(t)] = "]"
     /\ ~Contains(SubSeq(t, 2, Len(t) - 1), "]")
  THEN LET inner == SubSeq(t, 2, Len(t) - 1)
       IN  IF StartsWith(inner, ProfilePrefix) /\ Len(inner) > Len(ProfilePrefix)
           THEN Some(SubSeq(inner, Len(ProfilePrefix) + 1, Len(inner)))
           ELSE Some(inner)
  ELSE Undefined

\* A faulty variant: key and value are taken as they stand, blanks included.
MatchKeyValueRaw(t) ==
  LET i == IndexFrom(t, "=", 1)
  IN  IF i >= 2 /\ \A j \in (i + 1)..Len(t) : t[j] \notin LineTerminators
      THEN Some(<<SubSeq(t, 1, i - 1), SubSeq(t, i + 1, Len(t))>>)
      ELSE Undefined

\* trimmed.match(/^([^=]+)=(.*)$/): Undefined, or Some(<<key, value>>), both
\* trimmed as lines 59-60 and 101-102 do.
MatchKeyValue(t) ==
  LET i == IndexFrom(t, "=", 1)
  IN  IF i >= 2 /\ \A j \in (i + 1)..Len(t) : t[j] \notin LineTerminators
      THEN Some(<<Trim(SubSeq(t, 1, i - 1)), Trim(SubSeq(t, i + 1, Len(t)))>>)
      ELSE Undefined

\* A faulty variant: a repeated header keeps the record the name has.
CredentialsLineMerging(st, line) ==
  LET trimmed == Trim(line)
      header == MatchCredentialsHeader(trimmed)
      kv == MatchKeyValue(trimmed)
  IN  IF trimmed = <<>> \/ StartsWith(trimmed, <<"#">>) THEN st
      ELSE IF header # Undefined
      THEN [profiles |-> IF ObjHasOwn(st.profiles, header[1]) THEN st.profiles
                         ELSE ObjSet(st.profiles, header[1], EmptyRecord),
            currentProfile |-> header[1]]
      ELSE IF st.currentProfile # <<>> /\ kv # Undefined
      THEN LET p == ObjIndexOf(st.profiles, st.currentProfile)
           IN  IF kv[1][1] = KeyAccessKeyId
               THEN [st EXCEPT !.profiles[p].val.accessKeyId = Some(kv[1][2])]
               ELSE IF kv[1][1] = KeySecretAccessKey
               THEN [st EXCEPT !.profiles[p].val.secretAccessKey = Some(kv[1][2])]
               ELSE st
      ELSE st

\* A faulty variant: a header without its closing bracket starts a section.
CredentialsLineLenient(st, line) ==
  LET trimmed == Trim(line)
      closed == IF Len(trimmed) >= 2 /\ trimmed[1] = "["
                   /\ ~Contains(trimmed, "]")
                THEN trimmed \o <<"]">> ELSE trimmed
      header == MatchCredentialsHeader(closed)
      kv == MatchKeyValue(trimmed)
  IN  IF trimmed = <<>> \/ StartsWith(trimmed, <<"#">>) THEN st
      ELSE IF header # Undefined
      THEN [profiles |-> ObjSet(st.profiles, header[1], EmptyRecord),
            currentProfile |-> header[1]]
      ELSE IF st.currentProfile # <<>> /\ kv # Undefined
      THEN LET p == ObjIndexOf(st.profiles, st.currentProfile)
           IN  IF kv[1][1] = KeyAccessKeyId
               THEN [st EXCEPT !.profiles[p].val.accessKeyId = Some(kv[1][2])]
               ELSE IF kv[1][1] = KeySecretAccessKey
               THEN [st EXCEPT !.profiles[p].val.secretAccessKey = Some(kv[1][2])]
               ELSE st
      ELSE st

\* One iteration of the loop of parseCredentialsFile over a line.
CredentialsLine(st, line) ==
  LET trimmed == Trim(line)
      header == MatchCredentialsHeader(trimmed)
      kv == MatchKeyValue(trimmed)
  IN  IF trimmed = <<>> \/ StartsWith(trimmed, <<"#">>) THEN st
      ELSE IF header # Undefined
      THEN [profiles |-> ObjSet(st.profiles, header[1], EmptyRecord),
            currentProfile |-> header[1]]
      ELSE IF st.currentProfile # <<>> /\ kv # Undefined
      THEN LET p == ObjIndexOf(st.profiles, st.currentProfile)
           IN  IF kv[1][1] = KeyAccessKeyId
               THEN [st EXCEPT !.profiles[p].val.accessKeyId = Some(kv[1][2])]
               ELSE IF kv[1][1] = KeySecretAccessKey
               THEN [st EXCEPT !.profiles[p].val.secretAccessKey = Some(kv[1][2])]
               ELSE st
      ELSE st

\* A faulty variant: an empty line ends the current section.
ConfigLineBlankEnds(st, line) ==
  LET trimmed == Trim(line)
      header == MatchConfigHeader(trimmed)
      kv == MatchKeyValue(trimmed)
  IN  IF trimmed = <<>> THEN [st EXCEPT !.currentProfile = <<>>]
      ELSE IF StartsWith(trimmed, <<"#">>) THEN st
      ELSE IF header # Undefined
      THEN [profiles |-> ObjSet(st.profiles, header[1], EmptyRecord),
            currentProfile |-> header[1]]
      ELSE IF st.currentProfile # <<>> /\ kv # Undefined
      THEN LET p == ObjIndexOf(st.profiles, st.currentProfile)
           IN  IF kv[1][1] = KeyRegion
               THEN [st EXCEPT !.profiles[p].val.region = Some(kv[1][2])]
               ELSE st
      ELSE st

\* A faulty variant: a line that opens a bracket without being a header
\* ends the current section.
ConfigLineEnding(st, line) ==
  LET trimmed == Trim(line)
      header == MatchConfigHeader(trimmed)
      kv == MatchKeyValue(trimmed)
  IN  IF trimmed = <<>> \/ StartsWith(trimmed, <<"#">>) THEN st
      ELSE IF header # Undefined
      THEN [profiles |-> ObjSet(st.profiles, header[1], EmptyRecord),
            currentProfile |-> header[1]]
      ELSE IF StartsWith(trimmed, <<"[">>)
      THEN [st EXCEPT !.currentProfile = <<>>]
      ELSE IF st.currentProfile # <<>> /\ kv # Undefined
      THEN LET p == ObjIndexOf(st.profiles, st.currentProfile)
           IN  IF kv[1][1] = KeyRegion
               THEN [st EXCEPT !.profiles[p].val.region = Some(kv[1][2])]
               ELSE st
      ELSE st

\* One iteration of the loop of parseConfigFile over a line.
ConfigLine(st, line) ==
  LET trimmed == Trim(line)
      header == MatchConfigHeader(trimmed)
      kv == MatchKeyValue(trimmed)
  IN  IF trimmed = <<>> \/ StartsWith(trimmed, <<"#">>) THEN st
      ELSE IF header # Undefined
      THEN [profiles |-> ObjSet(st.profiles, header[1], EmptyRecord),
            currentProfile |-> header[1]]
      ELSE IF st.currentProfile # <<>> /\ kv # Undefined
      THEN LET p == ObjIndexOf(st.profiles, st.currentProfile)
           IN  IF kv[1][1] = KeyRegion
               THEN [st EXCEPT !.profiles[p].val.region = Some(kv[1][2])]
               ELSE st
      ELSE st

RECURSIVE CredentialsLoop(_, _, _)
CredentialsLoop(st, lines, i) ==
  IF i > Len(lines) THEN st
  ELSE CredentialsLoop(CredentialsLine(st, lines[i]), lines, i + 1)

RECURSIVE ConfigLoop(_, _, _)
ConfigLoop(st, lines, i) ==
  IF i > Len(lines) THEN st
  ELSE ConfigLoop(ConfigLine(st, lines[i]), lines, i + 1)

ParseStart == [profiles |-> <<>>, currentProfile |-> <<>>]

\* The parse of a credentials text.
ParseCredentialsText(content) ==
  CredentialsLoop(ParseStart, SplitLines(content), 1).profiles

\* The parse of a config text.
ParseConfigText(content) ==
  ConfigLoop(ParseStart, SplitLines(content), 1).profiles

\* parseCredentialsFile: file is Undefined (no such file) or Some(content).
parseCredentialsFile(file) ==
  IF file = Undefined THEN <<>> ELSE ParseCredentialsText(file[1])

\* parseConfigFile
parseConfigFile(file) ==
  IF file = Undefined THEN <<>> ELSE ParseConfigText(file[1])

(***************************************************************************)
(* The writers.                                                            *)
(***************************************************************************)
\* `${x}` for a string or undefined x.
TemplateText(x) == IF x = Undefined THEN UndefinedText ELSE x[1]

CredentialsBlock(e) ==
  <<"[">> \o e.name \o <<"]", NL>>
    \o KeyAccessKeyId \o Assign \o TemplateText(e.val.accessKeyId) \o <<NL>>
    \o KeySecretAccessKey \o Assign \o TemplateText(e.val.secretAccessKey) \o <<NL>>
    \o <<NL>>

\* A faulty variant: an empty region counts as set.
RegionIsDefined(e) == e.val.region # Undefined

\* if (profile.region): defined and not the empty string
RegionIsTruthy(e) == e.val.region # Undefined /\ e.val.region[1] # <<>>

ConfigBlock(e) ==
  (IF e.name = DefaultName
   THEN <<"[">> \o DefaultName \o <<"]", NL>>
   ELSE <<"[">> \o ProfilePrefix \o e.name \o <<"]", NL>>)
    \o (IF RegionIsTruthy(e)
        THEN KeyRegion \o Assign \o e.val.region[1] \o <<NL>>
        ELSE <<>>)
    \o <<NL>>

RECURSIVE RenderCredentials(_, _)
RenderCredentials(profiles, i) ==
  IF i > Len(profiles) THEN <<>>
  ELSE CredentialsBlock(profiles[i]) \o RenderCredentials(profiles, i + 1)

RECURSIVE RenderConfig(_, _)
RenderConfig(profiles, i) ==
  IF i > Len(profiles) THEN <<>>
  ELSE ConfigBlock(profiles[i]) \o RenderConfig(profiles, i + 1)

\* The content writeCredentialsFile writes.
CredentialsContent(profiles) == RenderCredentials(profiles, 1)

\* The content writeConfigFile writes.
ConfigContent(profiles) == RenderConfig(profiles, 1)

(***************************************************************************)
(* One invocation of the tool.  A run r carries the file system it works   *)
(* on (awsDir, credentials, config) and what it has done so far: the lines *)
(* printed, the prompts asked, the mkdirSync and writeFileSync calls, and  *)
(* the exit code once process.exit has been called.                        *)
(***************************************************************************)
\* console.log / console.error of a template with its argument filled in.
\* (The source's messages start with an emoji, left out of msg.)
Console(r, stream, msg, text) ==
  [r EXCEPT !.out = Append(@, [stream |-> stream, msg |-> msg, text |-> text])]

\* ensureAwsDirectory
ensureAwsDirectory(r) ==
  IF ~r.awsDir
  THEN [r EXCEPT !.awsDir = TRUE, !.mkdirs = Append(@, "~/.aws")]
  ELSE r

\* writeCredentialsFile
writeCredentialsFile(r, profiles) ==
  [ensureAwsDirectory(r) EXCEPT
     !.credentials = Some(CredentialsContent(profiles)),
     !.writes = Append(@, "credentials")]

\* A faulty variant: an empty mapping is not written.
writeConfigFileUnlessEmpty(r, profiles) ==
  IF profiles = <<>> THEN r
  ELSE [ensureAwsDirectory(r) EXCEPT
          !.config = Some(ConfigContent(profiles)),
          !.writes = Append(@, "config")]

\* writeConfigFile
writeConfigFile(r, profiles) ==
  [ensureAwsDirectory(r) EXCEPT
     !.config = Some(ConfigContent(profiles)),
     !.writes = Append(@, "config")]

(***************************************************************************)
(* addProfile                                                              *)
(***************************************************************************)
\* regionPattern.test(t) for /^[a-z]{2}-[a-z]+-\d+$/
RECURSIVE AllIn(_, _, _, _)
AllIn(s, from, to, set) ==
  IF from > to THEN TRUE
  ELSE s[from] \in set /\ AllIn(s, from + 1, to, set)

RegionPatternTest(t) ==
  /\ Len(t) >= 6
  /\ t[1] \in LowerCase
  /\ t[2] \in LowerCase
  /\ t[3] = "-"
  /\ \E d \in 5..(Len(t) - 1) :
       /\ t[d] = "-"
       /\ AllIn(t, 4, d - 1, LowerCase)
       /\ AllIn(t, d + 1, Len(t), Digits)

\* The validate functions of the three questions: inquirer asks again
\* until each accepts, so prompt resolves only with answers that pass.
AnswersValid(answers) ==
  /\ Len(Trim(answers.accessKeyId)) > 0
  /\ Len(Trim(answers.secretAccessKey)) > 0
  /\ RegionPatternTest(Trim(answers.region))

\* credentials[profileName] = {...}
AddedCredentials(credentials, profileName, answers) ==
  ObjSet(credentials, profileName,
         [accessKeyId |-> Some(Trim(answers.accessKeyId)),
          secretAccessKey |-> Some(Trim(answers.secretAccessKey)),
          region |-> Some(Trim(answers.region))])

\* config[profileName] = {...}
AddedConfig(config, profileName, answers) ==
  ObjSet(config, profileName,
         [EmptyRecord EXCEPT !.region = Some(Trim(answers.region))])

addProfile(r, profileName, answers) ==
  LET r1 == Console(r, "log", "Adding AWS profile: ${profileName}", profileName)
      r2 == [r1 EXCEPT !.prompts = Append(@, "credentials and region")]
      credentials == parseCredentialsFile(r2.credentials)
      config == parseConfigFile(r2.config)
      r3 == writeCredentialsFile(r2,
              AddedCredentials(credentials, profileName, answers))
      r4 == writeConfigFile(r3, AddedConfig(config, profileName, answers))
      r5 == Console(r4, "log", "Profile '${profileName}' added successfully!",
                  profileName)
  IN  Console(r5, "log", "You can now use it with: aws-auth ${profileName}",
            profileName)

(***************************************************************************)
(* listProfiles                                                            *)
(***************************************************************************)
\* config[profileName]?.region is truthy: defined and not the empty string
HasRegion(config, profileName) ==
  LET c == ObjGet(config, profileName)
  IN  c # Undefined /\ c[1].region # Undefined /\ c[1].region[1] # <<>>

\* config[profileName]?.region || 'not set'
ListedRegion(config, profileName) ==
  IF HasRegion(config, profileName)
  THEN ObjGet(config, profileName)[1].region[1]
  ELSE NotSetText

\* A faulty variant: the marker of the active profile is never printed.
ListPrefixUnmarked(profileName) == <<" ", " ">>

\* const prefix = isDefault ? '* ' : '  '
ListPrefix(profileName) ==
  IF profileName = DefaultName THEN <<"*", " ">> ELSE <<" ", " ">>

\* `${prefix}${profileName} (region: ${region})`
ProfileLine(config, profileName) ==
  ListPrefix(profileName) \o profileName
    \o <<" ", "(", "r", "e", "g", "i", "o", "n", ":", " ">>
    \o ListedRegion(config, profileName) \o <<")">>

RECURSIVE PrintProfileLines(_, _, _, _)
PrintProfileLines(r, profileNames, config, i) ==
  IF i > Len(profileNames) THEN r
  ELSE PrintProfileLines(
         Console(r, "log", "${prefix}${profileName} (region: ${region})",
               ProfileLine(config, profileNames[i])),
         profileNames, config, i + 1)

\* profileNames.includes('default')
IncludesDefault(profileNames) ==
  \E i \in 1..Len(profileNames) : profileNames[i] = DefaultName

listProfiles(r) ==
  LET credentials == parseCredentialsFile(r.credentials)
      config == parseConfigFile(r.config)
      profileNames == ObjKeys(credentials)
  IN  IF Len(profileNames) = 0
      THEN Console(Console(r, "log", "No AWS profiles found.", <<>>),
                 "log",
                 "Use \"aws-auth add <profile-name>\" to create a new profile.",
                 <<>>)
      ELSE LET r1 == Console(Console(r, "log", "Available AWS profiles:", <<>>),
                           "log", "", <<>>)
               r2 == PrintProfileLines(r1, profileNames, config, 1)
           IN  IF IncludesDefault(profileNames)
               THEN Console(Console(r2, "log", "", <<>>),
                          "log", "* = currently active profile", <<>>)
               ELSE r2

(***************************************************************************)
(* useProfile                                                              *)
(***************************************************************************)
\* credentials.default = credentials[profileName]
UsedCredentials(credentials, profileName) ==
  ObjSet(credentials, DefaultName, ObjGet(credentials, profileName)[1])

\* A faulty variant: without an entry for the profile, default is left as
\* it is.
UsedConfigKeepingDefault(config, profileName) ==
  IF ObjGet(config, profileName) # Undefined
  THEN ObjSet(config, DefaultName, ObjGet(config, profileName)[1])
  ELSE config

\* A faulty variant: default gets an empty entry, not the profile's.
UsedConfigEmpty(config, profileName) ==
  ObjSet(config, DefaultName, EmptyRecord)

\* config.default = config[profileName] || {}
UsedConfig(config, profileName) ==
  ObjSet(config, DefaultName,
         IF ObjGet(config, profileName) # Undefined
         THEN ObjGet(config, profileName)[1]
         ELSE EmptyRecord)

useProfile(r, profileName) ==
  LET credentials == parseCredentialsFile(r.credentials)
      config == parseConfigFile(r.config)
  IN  IF ObjGet(credentials, profileName) = Undefined
      THEN LET r1 == Console(r, "error", "Profile '${profileName}' not found.",
                           profileName)
               r2 == Console(r1, "log", "Available profiles:", <<>>)
           IN  [listProfiles(r2) EXCEPT !.exitCode = 1]
      ELSE LET r1 == writeCredentialsFile(r,
                       UsedCredentials(credentials, profileName))
               r2 == writeConfigFile(r1, UsedConfig(config, profileName))
               r3 == Console(r2, "log", "AWS profile set to '${profileName}'",
                           profileName)
               \* config now holds the default entry set above
               config1 == UsedConfig(config, profileName)
           IN  IF HasRegion(config1, profileName)
               THEN Console(r3, "log", "Region: ${config[profileName].region}",
                            ObjGet(config1, profileName)[1].region[1])
               ELSE r3

(***************************************************************************)
(* removeProfile                                                           *)
(***************************************************************************)
\* A faulty variant: no name is refused.
IsDefaultProfileNever(profileName) == FALSE

\* profileName === 'default'
IsDefaultProfile(profileName) == profileName = DefaultName

\* A faulty variant: the answer to the confirmation is not looked at.
RemovalConfirmedAlways(confirm) == TRUE

\* if (!confirm)
RemovalConfirmed(confirm) == confirm

removeProfile(r, profileName, confirm) ==
  IF IsDefaultProfile(profileName)
  THEN Console(r, "error", "Cannot remove the default profile.", <<>>)
  ELSE LET credentials == parseCredentialsFile(r.credentials)
           config == parseConfigFile(r.config)
       IN  IF ObjGet(credentials, profileName) = Undefined
           THEN Console(r, "error", "Profile '${profileName}' not found.",
                      profileName)
           ELSE LET r1 == [r EXCEPT !.prompts = Append(@, "confirm")]
                IN  IF ~RemovalConfirmed(confirm)
                    THEN Console(r1, "log", "Profile removal cancelled.", <<>>)
                    ELSE LET r2 == writeCredentialsFile(r1,
                                     ObjDelete(credentials, profileName))
                             r3 == writeConfigFile(r2,
                                     ObjDelete(config, profileName))
                         IN  Console(r3, "log",
                                   "Profile '${profileName}' removed successfully.",
                                   profileName)

(***************************************************************************)
(* The inputs of the model: the profile names given on the command line,   *)
(* the answers typed at the prompts, and the files found at the start.     *)
(***************************************************************************)
Prod == <<"p","r","o","d">>

Dev == <<"d","e","v">>

Seven == <<"7">>

Constructor == <<"c","o","n","s","t","r","u","c","t","o","r">>

Bracketed == <<"x","]">>

Sso == <<"s","s","o">>

Extra == <<"e","x","t","r","a">>

Key1 == <<"A","K","1">>

Key2 == <<"A","K","2">>

Secret1 == <<"s","/","1">>

Secret2 == <<"s","=","2">>

UsWest2 == <<"u","s","-","w","e","s","t","-","2">>

EuWest1 == <<"e","u","-","w","e","s","t","-","1">>

\* The <profile> argument of a command: any string.
ProfileArgs == {Prod, Seven, DefaultName, Constructor, Bracketed}

\* What the user may type at the three prompts of addProfile: answers with
\* blanks around them, a blank key, a region of the wrong form.
AnswerPool ==
  { [accessKeyId |-> <<" ">> \o Key1, secretAccessKey |-> Secret2 \o <<" ">>,
     region |-> UsWest2 \o <<" ">>],
    [accessKeyId |-> <<" ">>, secretAccessKey |-> Secret1, region |-> UsWest2],
    [accessKeyId |-> Key1, secretAccessKey |-> Secret1,
     region |-> <<"u","s","-","w","e","s","t">>] }

Entry(name, accessKeyId, secretAccessKey, region) ==
  [name |-> name,
   val |-> [accessKeyId |-> accessKeyId, secretAccessKey |-> secretAccessKey,
            region |-> region]]

RECURSIVE JoinLines(_, _)
JoinLines(lines, i) ==
  IF i > Len(lines) THEN <<>>
  ELSE lines[i] \o <<NL>> \o JoinLines(lines, i + 1)

\* A credentials file edited by hand: a comment, keys written without
\* spaces, a key this tool does not know, and a section without keys.
HandCredentials ==
  JoinLines(<< <<"#"," ","k","e","y","s">>,
               <<"[">> \o Prod \o <<"]">>,
               KeyAccessKeyId \o <<"=">> \o Key1,
               <<" ">> \o KeySecretAccessKey \o <<" ","="," "," ">> \o Secret1,
               <<"r","o","l","e"," ","="," ","x">>,
               <<>>,
               <<"[">> \o Sso \o <<"]">> >>, 1)

\* A config file edited by hand: default first, a profile with an empty
\* region,
\* and a profile the credentials file does not have.
HandConfig ==
  JoinLines(<< <<"[">> \o DefaultName \o <<"]">>,
               KeyRegion \o Assign \o EuWest1,
               <<"[">> \o ProfilePrefix \o Prod \o <<"]">>,
               KeyRegion \o <<" ","=">>,
               <<"o","u","t","p","u","t"," ","="," ","j","s","o","n">>,
               <<"#"," ","c">>,
               <<"[">> \o ProfilePrefix \o Extra \o <<"]">>,
               KeyRegion \o <<"=">> \o UsWest2 >>, 1)

\* The credentials files a run may find (besides none at all).
InitialCredentials ==
  { <<>>,
    CredentialsContent(<<Entry(DefaultName, Some(Key2), Some(Secret2), Undefined),
                         Entry(Prod, Some(Key1), Some(Secret1), Undefined),
                         Entry(Dev, Some(Key2), Some(Secret2), Undefined)>>),
    HandCredentials }

\* The config files a run may find (besides none at all).
InitialConfig ==
  { <<>>,
    ConfigContent(<<Entry(DefaultName, Undefined, Undefined, Some(UsWest2)),
                    Entry(Dev, Undefined, Undefined, Some(EuWest1))>>),
    HandConfig }

\* How many invocations a behaviour runs.
MaxOps == 2

(***************************************************************************)
(* The state: the directory ~/.aws, the two files, the record of the       *)
(* invocations run so far (what each was given, the files it found, what   *)
(* it did), and the invocations under way at the same time, each at some   *)
(* file-system call of its own (none when invocations run one by one).     *)
(***************************************************************************)
VARIABLES awsDirExists, credentialsFile, configFile, history, race

vars == <<awsDirExists, credentialsFile, configFile, history, race>>

\* No invocation is under way.
NoRace == [procs |-> <<>>, log |-> <<>>]

NoAnswers == [accessKeyId |-> <<>>, secretAccessKey |-> <<>>, region |-> <<>>]

NoRun == [op |-> "none", profileName |-> <<>>, answers |-> NoAnswers,
          confirm |-> FALSE,
          before |-> [awsDir |-> FALSE, credentials |-> Undefined,
                      config |-> Undefined],
          out |-> <<>>, prompts |-> <<>>, mkdirs |-> <<>>, writes |-> <<>>,
          exitCode |-> 0]

\* The last invocation run.
last == IF history = <<>> THEN NoRun ELSE history[Len(history)]

\* The number of invocations run.
ops == Len(history)

\* A run starts on the files as they are, having done nothing.
StartRun ==
  [awsDir |-> awsDirExists, credentials |-> credentialsFile,
   config |-> configFile, out |-> <<>>, prompts |-> <<>>, mkdirs |-> <<>>,
   writes |-> <<>>, exitCode |-> 0]

\* The invocation ends: the files are as the run left them.
Finish(op, profileName, answers, confirm, r) ==
  /\ awsDirExists' = r.awsDir
  /\ credentialsFile' = r.credentials
  /\ configFile' = r.config
  /\ race' = race
  /\ history' = Append(history,
       [op |-> op, profileName |-> profileName, answers |-> answers,
        confirm |-> confirm,
        before |-> [awsDir |-> awsDirExists,
                    credentials |-> credentialsFile,
                    config |-> configFile],
        out |-> r.out, prompts |-> r.prompts, mkdirs |-> r.mkdirs,
        writes |-> r.writes, exitCode |-> r.exitCode])

Init ==
  /\ credentialsFile \in {Undefined} \cup {Some(t) : t \in InitialCredentials}
  /\ configFile \in {Undefined} \cup {Some(t) : t \in InitialConfig}
  /\ awsDirExists \in BOOLEAN
  /\ (credentialsFile # Undefined \/ configFile # Undefined) => awsDirExists
  /\ history = <<>>
  /\ race = NoRace

\* aws-auth add <profile>
AddProfile ==
  \E profileName \in ProfileArgs, answers \in AnswerPool :
    /\ ops < MaxOps
    /\ AnswersValid(answers)
    /\ Finish("add", profileName, answers, FALSE,
              addProfile(StartRun, profileName, answers))

\* aws-auth use <profile>
UseProfile ==
  \E profileName \in ProfileArgs :
    /\ ops < MaxOps
    /\ Finish("use", profileName, NoAnswers, FALSE,
              useProfile(StartRun, profileName))

\* aws-auth list
ListProfiles ==
  /\ ops < MaxOps
  /\ Finish("list", <<>>, NoAnswers, FALSE, listProfiles(StartRun))

\* aws-auth remove <profile>
RemoveProfile ==
  \E profileName \in ProfileArgs, confirm \in BOOLEAN :
    /\ ops < MaxOps
    /\ Finish("remove", profileName, NoAnswers, confirm,
              removeProfile(StartRun, profileName, confirm))

Next == AddProfile \/ UseProfile \/ ListProfiles \/ RemoveProfile

Spec == Init /\ [][Next]_vars

(***************************************************************************)
(* The end-to-end scenario of the specification, section 8: from empty or  *)
(* absent files, add prod, list, use prod, list, remove prod (confirmed),  *)
(* list.                                                                   *)
(***************************************************************************)
ScenarioAnswers ==
  { [accessKeyId |-> k, secretAccessKey |-> s, region |-> g] :
      k \in {Key1, <<" ">> \o Key2},
      s \in {Secret1, Secret2 \o <<" ">>},
      g \in {UsWest2, UsWest2 \o <<" ">>} }

ScenarioInit ==
  /\ credentialsFile \in {Undefined, Some(<<>>)}
  /\ configFile \in {Undefined, Some(<<>>)}
  /\ awsDirExists \in BOOLEAN
  /\ (credentialsFile # Undefined \/ configFile # Undefined) => awsDirExists
  /\ history = <<>>
  /\ race = NoRace

ScenarioAdd ==
  \E answers \in ScenarioAnswers :
    /\ ops = 0
    /\ AnswersValid(answers)
    /\ Finish("add", Prod, answers, FALSE, addProfile(StartRun, Prod, answers))

ScenarioList ==
  /\ ops \in {1, 3, 5}
  /\ Finish("list", <<>>, NoAnswers, FALSE, listProfiles(StartRun))

ScenarioUse ==
  /\ ops = 2
  /\ Finish("use", Prod, NoAnswers, FALSE, useProfile(StartRun, Prod))

ScenarioRemove ==
  /\ ops = 4
  /\ Finish("remove", Prod, NoAnswers, TRUE,
            removeProfile(StartRun, Prod, TRUE))

ScenarioNext == ScenarioAdd \/ ScenarioList \/ ScenarioUse \/ ScenarioRemove

SpecScenario == ScenarioInit /\ [][ScenarioNext]_vars
(***************************************************************************)
(* Vocabulary of the properties: the mappings a fresh load gives before    *)
(* and after the last invocation.                                          *)
(***************************************************************************)
SecretsBefore == parseCredentialsFile(last.before.credentials)

ConfigBefore == parseConfigFile(last.before.config)

SecretsAfter == parseCredentialsFile(credentialsFile)

ConfigAfter == parseConfigFile(configFile)

Has(m, n) == \E i \in 1..Len(m) : m[i].name = n

PosOf(m, n) == CHOOSE i \in 1..Len(m) : m[i].name = n

ValueOf(m, n) == m[PosOf(m, n)].val

NamesOf(m) == {m[i].name : i \in 1..Len(m)}

NameSeq(m) == [i \in 1..Len(m) |-> m[i].name]

Without(names, n) == SelectSeq(names, LAMBDA x : x # n)

\* An absent field and an empty one count as equal.
SameValue(x, y) ==
  \/ x = y
  \/ x \in {Undefined, Some(<<>>)} /\ y \in {Undefined, Some(<<>>)}

SameKeys(v, w) ==
  /\ SameValue(v.accessKeyId, w.accessKeyId)
  /\ SameValue(v.secretAccessKey, w.secretAccessKey)

SameMapping(a, b) ==
  /\ Len(a) = Len(b)
  /\ \A i \in 1..Len(a) :
       /\ a[i].name = b[i].name
       /\ SameKeys(a[i].val, b[i].val)
       /\ SameValue(a[i].val.region, b[i].val.region)

FilesUnchanged ==
  /\ credentialsFile = last.before.credentials
  /\ configFile = last.before.config
  /\ awsDirExists = last.before.awsDir

Printed(msg) == \E i \in 1..Len(last.out) : last.out[i].msg = msg

\* Every entry of the secrets mapping has both keys.
Complete(m) ==
  \A i \in 1..Len(m) :
    m[i].val.accessKeyId # Undefined /\ m[i].val.secretAccessKey # Undefined

\* A name that is kept in insertion order and that a header line can carry.
OrdinaryName(n) == ~IsArrayIndex(n) /\ ~Contains(n, "]")

(***************************************************************************)
(* C1  Isolation on add: when the stored set holds at least two profiles   *)
(* and X is in neither mapping, then after add(X) a fresh load holds X and *)
(* every profile it held before, each with the accessKeyId,                *)
(* secretAccessKey and region it had, and each before X in both files.     *)
(***************************************************************************)
IsolationOnAddHolds ==
  LET x == last.profileName
  IN  /\ Has(SecretsAfter, x)
      /\ Has(ConfigAfter, x)
      /\ \A n \in NamesOf(SecretsBefore) :
           /\ Has(SecretsAfter, n)
           /\ SameKeys(ValueOf(SecretsAfter, n), ValueOf(SecretsBefore, n))
           /\ PosOf(SecretsAfter, n) < PosOf(SecretsAfter, x)
      /\ \A n \in NamesOf(ConfigBefore) :
           /\ Has(ConfigAfter, n)
           /\ SameValue(ValueOf(ConfigAfter, n).region,
                        ValueOf(ConfigBefore, n).region)
           /\ PosOf(ConfigAfter, n) < PosOf(ConfigAfter, x)

IsolationOnAdd ==
  ( /\ last.op = "add"
    /\ Len(SecretsBefore) >= 2
    /\ ~Has(SecretsBefore, last.profileName)
    /\ ~Has(ConfigBefore, last.profileName) )
  => IsolationOnAddHolds

\* What does hold of the code: the same, for a name that is no array index
\* and holds no "]", when every stored profile has both keys.
IsolationOnAddOrdinary ==
  ( /\ last.op = "add"
    /\ Len(SecretsBefore) >= 2
    /\ ~Has(SecretsBefore, last.profileName)
    /\ ~Has(ConfigBefore, last.profileName)
    /\ OrdinaryName(last.profileName)
    /\ Complete(SecretsBefore) )
  => IsolationOnAddHolds

(***************************************************************************)
(* C2  Use copies, does not move: when A is in the secrets mapping, then   *)
(* after use(A) a fresh load still holds A with the keys it had, "default" *)
(* holds the keys A had, and every other profile is as it was.             *)
(***************************************************************************)
UseCopiesHolds ==
  LET a == last.profileName
  IN  /\ Has(SecretsAfter, a)
      /\ SameKeys(ValueOf(SecretsAfter, a), ValueOf(SecretsBefore, a))
      /\ Has(SecretsAfter, DefaultName)
      /\ SameKeys(ValueOf(SecretsAfter, DefaultName), ValueOf(SecretsBefore, a))
      /\ NamesOf(SecretsAfter) = NamesOf(SecretsBefore) \cup {DefaultName}
      /\ \A n \in NamesOf(SecretsBefore) \ {DefaultName} :
           /\ Has(SecretsAfter, n)
           /\ SameKeys(ValueOf(SecretsAfter, n), ValueOf(SecretsBefore, n))

UseCopies ==
  (last.op = "use" /\ Has(SecretsBefore, last.profileName)) => UseCopiesHolds

\* What does hold of the code: the same, when every stored profile has both
\* keys.
UseCopiesComplete ==
  ( /\ last.op = "use"
    /\ Has(SecretsBefore, last.profileName)
    /\ Complete(SecretsBefore) )
  => UseCopiesHolds

(***************************************************************************)
(* C3  Round trip: parsing what the writer renders of a mapping gives the  *)
(* mapping back (names, order, fields; absent and empty fields equal),     *)
(* for the credentials and for the config variant.  Stated of the mappings *)
(* the files hold.                                                         *)
(***************************************************************************)
RoundTrip ==
  LET secrets == parseCredentialsFile(credentialsFile)
      config == parseConfigFile(configFile)
  IN  /\ SameMapping(ParseCredentialsText(CredentialsContent(secrets)), secrets)
      /\ SameMapping(ParseConfigText(ConfigContent(config)), config)

\* What does hold of the code: the round trip of the config variant, and
\* that of the credentials variant when every entry has both keys.
RoundTripComplete ==
  LET secrets == parseCredentialsFile(credentialsFile)
      config == parseConfigFile(configFile)
  IN  /\ Complete(secrets) =>
           SameMapping(ParseCredentialsText(CredentialsContent(secrets)), secrets)
      /\ SameMapping(ParseConfigText(ConfigContent(config)), config)

(***************************************************************************)
(* C4  Confirmed removal: for a name other than "default" that is in the   *)
(* secrets mapping, remove(name) answered yes writes both files, the name  *)
(* is in neither mapping afterwards, and the other entries are all there,  *)
(* with the fields and in the relative order they had.                     *)
(***************************************************************************)
ConfirmedRemovalHolds ==
  LET n == last.profileName
  IN  /\ last.writes = <<"credentials", "config">>
      /\ ~Has(SecretsAfter, n)
      /\ ~Has(ConfigAfter, n)
      /\ NameSeq(SecretsAfter) = Without(NameSeq(SecretsBefore), n)
      /\ NameSeq(ConfigAfter) = Without(NameSeq(ConfigBefore), n)
      /\ \A m \in NamesOf(SecretsAfter) :
           SameKeys(ValueOf(SecretsAfter, m), ValueOf(SecretsBefore, m))
      /\ \A m \in NamesOf(ConfigAfter) :
           SameValue(ValueOf(ConfigAfter, m).region,
                     ValueOf(ConfigBefore, m).region)

ConfirmedRemoval ==
  ( /\ last.op = "remove"
    /\ last.profileName # DefaultName
    /\ Has(SecretsBefore, last.profileName)
    /\ last.confirm )
  => ConfirmedRemovalHolds

\* What does hold of the code: the same, when every stored profile has both
\* keys.
ConfirmedRemovalComplete ==
  ( /\ last.op = "remove"
    /\ last.profileName # DefaultName
    /\ Has(SecretsBefore, last.profileName)
    /\ last.confirm
    /\ Complete(SecretsBefore) )
  => ConfirmedRemovalHolds

(***************************************************************************)
(* C5  Default protection: remove("default") prints the protected-profile  *)
(* error and nothing else, asks nothing, writes nothing, and leaves the    *)
(* directory and both files exactly as they were.                          *)
(***************************************************************************)
DefaultProtection ==
  (last.op = "remove" /\ last.profileName = DefaultName)
  => /\ last.out = <<[stream |-> "error",
                      msg |-> "Cannot remove the default profile.",
                      text |-> <<>>]>>
     /\ last.prompts = <<>>
     /\ last.writes = <<>>
     /\ last.mkdirs = <<>>
     /\ FilesUnchanged

\* remove("default"), answered yes, on files that hold a default profile.
DefaultProtectionWitness ==
  /\ last.op = "remove"
  /\ last.profileName = DefaultName
  /\ last.confirm
  /\ Has(SecretsBefore, DefaultName)
  /\ Has(ConfigBefore, DefaultName)

(***************************************************************************)
(* C6  Not-found symmetry: for a name that is no key of the secrets        *)
(* mapping, use(name) and remove(name) (there, a name other than           *)
(* "default", which is refused first) print the not-found error and write  *)
(* nothing.                                                                *)
(***************************************************************************)
NotFoundSymmetry ==
  ( /\ last.op \in {"use", "remove"}
    /\ ~Has(SecretsBefore, last.profileName)
    /\ (last.op = "remove" => last.profileName # DefaultName) )
  => /\ Printed("Profile '${profileName}' not found.")
     /\ last.writes = <<>>
     /\ FilesUnchanged

\* What does hold of the code: the same, for a name that Object.prototype
\* does not define.
NotFoundSymmetryOwn ==
  ( /\ last.op \in {"use", "remove"}
    /\ ~Has(SecretsBefore, last.profileName)
    /\ last.profileName \notin ObjectPrototypeProps
    /\ (last.op = "remove" => last.profileName # DefaultName) )
  => /\ Printed("Profile '${profileName}' not found.")
     /\ last.writes = <<>>
     /\ FilesUnchanged

(***************************************************************************)
(* C7  Declined removal: for a name other than "default" that is in the    *)
(* secrets mapping, remove(name) answered no asks for the confirmation,    *)
(* prints the cancellation and nothing else, writes nothing and leaves the *)
(* directory and both files as they were.                                  *)
(***************************************************************************)
DeclinedRemoval ==
  ( /\ last.op = "remove"
    /\ last.profileName # DefaultName
    /\ Has(SecretsBefore, last.profileName)
    /\ ~last.confirm )
  => /\ last.prompts = <<"confirm">>
     /\ last.out = <<[stream |-> "log", msg |-> "Profile removal cancelled.",
                      text |-> <<>>]>>
     /\ last.writes = <<>>
     /\ last.mkdirs = <<>>
     /\ last.exitCode = 0
     /\ FilesUnchanged

\* A declined remove of a stored profile that has a config entry too.
DeclinedRemovalWitness ==
  /\ last.op = "remove"
  /\ last.profileName # DefaultName
  /\ Has(SecretsBefore, last.profileName)
  /\ Has(ConfigBefore, last.profileName)
  /\ ~last.confirm
(***************************************************************************)
(* C8  list() output: one line per name of the secrets mapping, in mapping *)
(* order, each "* " for "default" and two spaces otherwise, then the name  *)
(* and the region of the config entry of that name, or "not set" when      *)
(* there is no such entry or its region is absent or empty; the legend if  *)
(* and only if "default" is listed; for an empty mapping (or no file) only *)
(* the no-profiles message; nothing is written and the exit code is 0.     *)
(***************************************************************************)
ProfileLineTemplate == "${prefix}${profileName} (region: ${region})"

LinesOf(out) == SelectSeq(out, LAMBDA o : o.msg = ProfileLineTemplate)

ExpectedRegion(config, n) ==
  IF \E i \in 1..Len(config) :
       config[i].name = n /\ config[i].val.region \notin {Undefined, Some(<<>>)}
  THEN ValueOf(config, n).region[1]
  ELSE <<"n","o","t"," ","s","e","t">>

ExpectedLine(config, n) ==
  (IF n = <<"d","e","f","a","u","l","t">> THEN <<"*"," ">> ELSE <<" "," ">>)
    \o n \o <<" ","(","r","e","g","i","o","n",":"," ">>
    \o ExpectedRegion(config, n) \o <<")">>

LogLine(msg) == [stream |-> "log", msg |-> msg, text |-> <<>>]

ListOutput ==
  (last.op = "list")
  => LET names == NameSeq(SecretsBefore)
         lines == LinesOf(last.out)
     IN  /\ last.writes = <<>>
         /\ last.exitCode = 0
         /\ FilesUnchanged
         /\ \A i \in 1..Len(last.out) : last.out[i].stream = "log"
         /\ IF names = <<>>
            THEN last.out =
                   <<LogLine("No AWS profiles found."),
                     LogLine("Use \"aws-auth add <profile-name>\" to create a new profile.")>>
            ELSE /\ Len(lines) = Len(names)
                 /\ \A i \in 1..Len(names) :
                      lines[i].text = ExpectedLine(ConfigBefore, names[i])
                 /\ ~Printed("No AWS profiles found.")
                 /\ Printed("* = currently active profile")
                      <=> (\E i \in 1..Len(names) : names[i] = DefaultName)

\* A listing of two or more profiles, "default" among them, one with an
\* empty region in the config file, which also holds a profile the
\* credentials file does not have.
ListOutputWitness ==
  /\ last.op = "list"
  /\ Len(SecretsBefore) >= 2
  /\ Has(SecretsBefore, DefaultName)
  /\ \E n \in NamesOf(ConfigBefore) : ~Has(SecretsBefore, n)
  /\ \E n \in NamesOf(SecretsBefore) :
       Has(ConfigBefore, n) /\ ValueOf(ConfigBefore, n).region = Some(<<>>)
  /\ \E n \in NamesOf(SecretsBefore) : ~Has(ConfigBefore, n)

(***************************************************************************)
(* C9  End-to-end scenario: from empty or absent files, after add("prod",  *)
(* key, secret, "us-west-2") list() prints the one profile line            *)
(* "  prod (region: us-west-2)" and no legend; after use("prod") it prints *)
(* two profile lines, "* default (region: us-west-2)" and                  *)
(* "  prod (region: us-west-2)", and the legend; after remove("prod")      *)
(* answered yes it prints only "* default (region: us-west-2)" and the     *)
(* legend, and "default" still holds the key, the secret and the region    *)
(* given to add.                                                           *)
(***************************************************************************)
ProdLine ==
  <<" "," ","p","r","o","d"," ","(","r","e","g","i","o","n",":"," ",
    "u","s","-","w","e","s","t","-","2",")">>

DefaultLine ==
  <<"*"," ","d","e","f","a","u","l","t"," ","(","r","e","g","i","o","n",":"," ",
    "u","s","-","w","e","s","t","-","2",")">>

LineTexts(out) == {LinesOf(out)[i].text : i \in 1..Len(LinesOf(out))}

HasLegend(out) ==
  \E i \in 1..Len(out) : out[i].msg = "* = currently active profile"

EndToEnd ==
  /\ ops >= 2 =>
       /\ history[2].op = "list"
       /\ Len(LinesOf(history[2].out)) = 1
       /\ LineTexts(history[2].out) = {ProdLine}
       /\ ~HasLegend(history[2].out)
  /\ ops >= 4 =>
       /\ history[4].op = "list"
       /\ Len(LinesOf(history[4].out)) = 2
       /\ LineTexts(history[4].out) = {DefaultLine, ProdLine}
       /\ HasLegend(history[4].out)
  /\ ops >= 6 =>
       /\ history[6].op = "list"
       /\ Len(LinesOf(history[6].out)) = 1
       /\ LineTexts(history[6].out) = {DefaultLine}
       /\ HasLegend(history[6].out)
       /\ NameSeq(SecretsAfter) = <<DefaultName>>
       /\ ValueOf(SecretsAfter, DefaultName).accessKeyId
            = Some(Trim(history[1].answers.accessKeyId))
       /\ ValueOf(SecretsAfter, DefaultName).secretAccessKey
            = Some(Trim(history[1].answers.secretAccessKey))
       /\ NameSeq(ConfigAfter) = <<DefaultName>>
       /\ ValueOf(ConfigAfter, DefaultName).region = Some(UsWest2)

\* The whole scenario has run, from absent files and no directory.
EndToEndWitness ==
  /\ ops = 6
  /\ history[1].op = "add"
  /\ history[1].before.credentials = Undefined
  /\ history[1].before.config = Undefined
  /\ ~history[1].before.awsDir
  /\ history[3].op = "use"
  /\ history[5].op = "remove"
  /\ history[5].confirm
  /\ last.op = "list"

(***************************************************************************)
(* C10  Upsert position on add: after add(name, ...) the secrets mapping   *)
(* holds name with the given keys and the config mapping holds name with   *)
(* the given region; in each file, a name that was there keeps its place   *)
(* and a name that was not comes after every entry that was.               *)
(***************************************************************************)
UpsertedAt(before, after, n) ==
  /\ Has(after, n)
  /\ IF Has(before, n)
     THEN NameSeq(after) = NameSeq(before)
     ELSE NameSeq(after) = Append(NameSeq(before), n)

UpsertPositionHolds ==
  LET n == last.profileName
  IN  /\ UpsertedAt(SecretsBefore, SecretsAfter, n)
      /\ ValueOf(SecretsAfter, n).accessKeyId = Some(Trim(last.answers.accessKeyId))
      /\ ValueOf(SecretsAfter, n).secretAccessKey
           = Some(Trim(last.answers.secretAccessKey))
      /\ UpsertedAt(ConfigBefore, ConfigAfter, n)
      /\ ValueOf(ConfigAfter, n).region = Some(Trim(last.answers.region))

UpsertPosition == (last.op = "add") => UpsertPositionHolds

\* What does hold of the code: the same, for a name that is no array index
\* and holds no "]".
UpsertPositionOrdinary ==
  (last.op = "add" /\ OrdinaryName(last.profileName)) => UpsertPositionHolds

(***************************************************************************)
(* C11  Exit behaviour on an unknown profile: use(name) for a name that is *)
(* not in the secrets mapping prints the not-found error first, then the   *)
(* listing of the profiles, ends with exit code 1 and writes no file;      *)
(* remove(name) for an unknown name, and a removal the user declines,      *)
(* return with exit code 0.                                                *)
(***************************************************************************)
NotFoundLine(n) ==
  [stream |-> "error", msg |-> "Profile '${profileName}' not found.",
   text |-> n]

\* What `list` prints on the files the run found.
ListingOf(run) ==
  listProfiles([awsDir |-> run.before.awsDir,
                credentials |-> run.before.credentials,
                config |-> run.before.config, out |-> <<>>, prompts |-> <<>>,
                mkdirs |-> <<>>, writes |-> <<>>, exitCode |-> 0]).out

UnknownUseHolds ==
  /\ Len(last.out) >= 2
  /\ last.out[1] = NotFoundLine(last.profileName)
  /\ last.out[2].msg = "Available profiles:"
  /\ SubSeq(last.out, 3, Len(last.out)) = ListingOf(last)
  /\ last.exitCode = 1
  /\ last.writes = <<>>
  /\ last.mkdirs = <<>>
  /\ FilesUnchanged

UnknownRemoveHolds ==
  ( /\ last.op = "remove"
    /\ \/ ~Has(SecretsBefore, last.profileName)
       \/ ~last.confirm )
  => last.exitCode = 0

ExitOnUnknown ==
  /\ (last.op = "use" /\ ~Has(SecretsBefore, last.profileName))
       => UnknownUseHolds
  /\ UnknownRemoveHolds

\* What does hold of the code: the same, for every name Object.prototype
\* does not define.
ExitOnUnknownOwn ==
  /\ ( /\ last.op = "use"
       /\ ~Has(SecretsBefore, last.profileName)
       /\ last.profileName \notin ObjectPrototypeProps )
       => UnknownUseHolds
  /\ UnknownRemoveHolds

ExitOnUnknownOwnWitness ==
  /\ last.op = "use"
  /\ ~Has(SecretsBefore, last.profileName)
  /\ last.profileName \notin ObjectPrototypeProps
  /\ Len(SecretsBefore) >= 2
  /\ last.exitCode = 1

(***************************************************************************)
(* C12  Persistence of a mutating operation: every successful add, use and *)
(* confirmed remove creates the directory ~/.aws when it is absent and     *)
(* writes exactly twice, the credentials file and then the config file,    *)
(* each with the rendering of the whole mapping the operation ends with;   *)
(* list and every refused or cancelled operation create and write nothing. *)
(***************************************************************************)
Succeeded ==
  \/ last.op = "add"
  \/ last.op = "use" /\ Printed("AWS profile set to '${profileName}'")
  \/ last.op = "remove"
       /\ Printed("Profile '${profileName}' removed successfully.")

\* The mappings the operation holds when it writes.
SecretsHeld ==
  CASE last.op = "add" ->
         AddedCredentials(SecretsBefore, last.profileName, last.answers)
    [] last.op = "use" -> UsedCredentials(SecretsBefore, last.profileName)
    [] OTHER -> ObjDelete(SecretsBefore, last.profileName)

ConfigHeld ==
  CASE last.op = "add" ->
         AddedConfig(ConfigBefore, last.profileName, last.answers)
    [] last.op = "use" -> UsedConfig(ConfigBefore, last.profileName)
    [] OTHER -> ObjDelete(ConfigBefore, last.profileName)

Persistence ==
  /\ Succeeded
       => /\ last.writes = <<"credentials", "config">>
          /\ last.mkdirs = (IF last.before.awsDir THEN <<>> ELSE <<"~/.aws">>)
          /\ awsDirExists
          /\ credentialsFile = Some(CredentialsContent(SecretsHeld))
          /\ configFile = Some(ConfigContent(ConfigHeld))
  /\ (last.op # "none" /\ ~Succeeded)
       => /\ last.writes = <<>>
          /\ last.mkdirs = <<>>
          /\ FilesUnchanged

\* A confirmed removal of the only profile, with no directory-less start:
\* both files are written, the config file with the rendering of an empty
\* mapping.
PersistenceWitness ==
  /\ last.op = "remove"
  /\ Succeeded
  /\ ConfigHeld = <<>>
  /\ Len(history) = 2
  /\ history[1].op = "add"
  /\ ~history[1].before.awsDir
  /\ history[1].mkdirs = <<"~/.aws">>

(***************************************************************************)
(* C16  Rendering of a missing field: the credentials writer renders an    *)
(* absent accessKeyId or secretAccessKey as the empty string after "=",    *)
(* so that once a mutating operation has rewritten a file that held such   *)
(* an entry, a fresh load gives that entry an absent or empty value for    *)
(* the field, never a non-empty one.                                       *)
(***************************************************************************)
\* The profiles the operation carries over as they are.
CarriedOver ==
  { n \in NamesOf(SecretsBefore) \cap NamesOf(SecretsAfter) :
      /\ n # last.profileName
      /\ ~(last.op = "use" /\ n = DefaultName) }

MissingFieldStaysEmpty ==
  Succeeded
  => \A n \in CarriedOver :
       /\ ValueOf(SecretsBefore, n).accessKeyId = Undefined
            => ValueOf(SecretsAfter, n).accessKeyId \in {Undefined, Some(<<>>)}
       /\ ValueOf(SecretsBefore, n).secretAccessKey = Undefined
            => ValueOf(SecretsAfter, n).secretAccessKey
                 \in {Undefined, Some(<<>>)}

\* What the code does: the field comes back as the text "undefined" (an added
\* name holding "]" aside: its header is not read back, C1).
MissingFieldBecomesUndefinedText ==
  ( /\ Succeeded
    /\ last.op = "add" => OrdinaryName(last.profileName) )
  => \A n \in CarriedOver :
       /\ ValueOf(SecretsBefore, n).accessKeyId = Undefined
            => ValueOf(SecretsAfter, n).accessKeyId = Some(UndefinedText)
       /\ ValueOf(SecretsBefore, n).secretAccessKey = Undefined
            => ValueOf(SecretsAfter, n).secretAccessKey = Some(UndefinedText)

(***************************************************************************)
(* C17  Config side of use: after use(name) for a name in the secrets      *)
(* mapping, a fresh load of the config file gives "default" the region of  *)
(* the config entry of name when there is one, and no region when there is *)
(* none (a region stored for "default" before is gone); the entry of name  *)
(* and every other entry are as they were.                                 *)
(***************************************************************************)
UseConfigSide ==
  (last.op = "use" /\ Has(SecretsBefore, last.profileName))
  => LET a == last.profileName
     IN  /\ Has(ConfigAfter, DefaultName)
         /\ IF Has(ConfigBefore, a)
            THEN SameValue(ValueOf(ConfigAfter, DefaultName).region,
                           ValueOf(ConfigBefore, a).region)
            ELSE ValueOf(ConfigAfter, DefaultName).region = Undefined
         /\ NamesOf(ConfigAfter) = NamesOf(ConfigBefore) \cup {DefaultName}
         /\ \A n \in NamesOf(ConfigBefore) \ {DefaultName} :
              SameValue(ValueOf(ConfigAfter, n).region,
                        ValueOf(ConfigBefore, n).region)

\* use of a profile without config entry, when "default" had a region.
UseConfigSideWitness ==
  /\ last.op = "use"
  /\ last.profileName # DefaultName
  /\ Has(SecretsBefore, last.profileName)
  /\ ~Has(ConfigBefore, last.profileName)
  /\ Has(ConfigBefore, DefaultName)
  /\ ValueOf(ConfigBefore, DefaultName).region \notin {Undefined, Some(<<>>)}
  /\ ValueOf(ConfigAfter, DefaultName).region = Undefined
  /\ Len(ConfigAfter) >= 2

(***************************************************************************)
(* C20  Config rendering: the config file a mutating operation writes      *)
(* holds, for each entry of the mapping in order, the header "[default]"   *)
(* when the name is exactly "default" and "[profile <name>]" otherwise,    *)
(* then the line "region = <region>" if and only if the region is set and  *)
(* not empty, then an empty line; and no other line.                       *)
(***************************************************************************)
ExpectedHeader(n) ==
  IF n = <<"d","e","f","a","u","l","t">>
  THEN <<"[","d","e","f","a","u","l","t","]">>
  ELSE <<"[","p","r","o","f","i","l","e"," ">> \o n \o <<"]">>

ExpectedBlockLines(e) ==
  <<ExpectedHeader(e.name)>>
    \o (IF e.val.region \notin {Undefined, Some(<<>>)}
        THEN << <<"r","e","g","i","o","n"," ","="," ">> \o e.val.region[1] >>
        ELSE <<>>)
    \o << <<>> >>

RECURSIVE ExpectedConfigLines(_, _)
ExpectedConfigLines(m, i) ==
  IF i > Len(m) THEN <<>>
  ELSE ExpectedBlockLines(m[i]) \o ExpectedConfigLines(m, i + 1)

\* The lines of a text in which every line ends with a line feed.
TerminatedLines(t) ==
  LET ls == SplitLines(t) IN SubSeq(ls, 1, Len(ls) - 1)

ConfigRendering ==
  Succeeded
  => /\ configFile # Undefined
     /\ configFile[1] = <<>> \/ configFile[1][Len(configFile[1])] = NL
     /\ TerminatedLines(configFile[1]) = ExpectedConfigLines(ConfigHeld, 1)

\* A rewrite of a mapping with "default", another name, a region, and an
\* empty region.
ConfigRenderingWitness ==
  /\ Succeeded
  /\ Has(ConfigHeld, DefaultName)
  /\ Len(ConfigHeld) >= 3
  /\ \E i \in 1..Len(ConfigHeld) : ConfigHeld[i].val.region = Some(<<>>)
  /\ \E i \in 1..Len(ConfigHeld) :
       ConfigHeld[i].val.region \notin {Undefined, Some(<<>>)}

(***************************************************************************)
(* The parsers on files written by hand: a credentials or a config file of *)
(* up to MaxLines lines drawn from a pool (headers, a header without its   *)
(* closing bracket, key lines with and without blanks around "=", a key    *)
(* the tool does not know, a comment; every line ends with a line feed, so *)
(* that the text ends with an empty line), then `aws-auth list`, which     *)
(* parses both files.                                                      *)
(***************************************************************************)
MaxLines == 4

UnterminatedHeader == <<"[">> \o Dev

CommentLine == <<" ","#","c">>

CredentialsLinePool ==
  { CommentLine,
    <<"[">> \o Prod \o <<"]">>,
    <<"[">> \o Dev \o <<"]">>,
    UnterminatedHeader,
    KeyAccessKeyId \o Assign \o Key1,
    KeySecretAccessKey \o <<"=">> \o Secret1 \o <<" ">>,
    <<"r","o","l","e"," ","="," ","x">> }

ConfigLinePool ==
  { CommentLine,
    <<"[">> \o DefaultName \o <<"]">>,
    <<"[">> \o ProfilePrefix \o DefaultName \o <<"]">>,
    <<"[">> \o ProfilePrefix \o Prod \o <<"]">>,
    KeyRegion \o Assign \o UsWest2,
    <<" ">> \o KeyRegion \o <<"=">> \o EuWest1,
    <<"o","u","t","p","u","t"," ","="," ","j","s","o","n">> }

\* The sequences of up to n lines of a pool.
LineSeqs(pool, n) == UNION { [1..k -> pool] : k \in 0..n }

FileTexts(pool) == { JoinLines(ls, 1) : ls \in LineSeqs(pool, MaxLines) }

\* The credentials file beside a hand-written config file.
PlainCredentials ==
  CredentialsContent(<<Entry(Prod, Some(Key1), Some(Secret1), Undefined)>>)

FilesInit ==
  /\ \/ /\ credentialsFile \in {Some(t) : t \in FileTexts(CredentialsLinePool)}
        /\ configFile = Undefined
     \/ /\ credentialsFile = Some(PlainCredentials)
        /\ configFile \in {Some(t) : t \in FileTexts(ConfigLinePool)}
  /\ awsDirExists = TRUE
  /\ history = <<>>
  /\ race = NoRace

\* aws-auth list
FilesList ==
  /\ ops = 0
  /\ Finish("list", <<>>, NoAnswers, FALSE, listProfiles(StartRun))

FilesNext == FilesList

SpecFiles == FilesInit /\ [][FilesNext]_vars

(***************************************************************************)
(* Vocabulary of the properties of the parsers: the lines of the two       *)
(* files, the parse of a sequence of lines, and what a line is.  The       *)
(* properties are stated of the files an invocation of list has parsed.    *)
(***************************************************************************)
CredentialsLines ==
  IF credentialsFile = Undefined THEN <<>> ELSE SplitLines(credentialsFile[1])

ConfigLines ==
  IF configFile = Undefined THEN <<>> ELSE SplitLines(configFile[1])

CredentialsRun(ls) == CredentialsLoop(ParseStart, ls, 1)

ConfigRun(ls) == ConfigLoop(ParseStart, ls, 1)

CredentialsOf(ls) == CredentialsRun(ls).profiles

ConfigOf(ls) == ConfigRun(ls).profiles

IsSkipped(line) ==
  LET t == Trim(line) IN t = <<>> \/ t[1] = "#"

\* A header line without its closing bracket.
IsUnterminated(line) ==
  LET t == Trim(line) IN Len(t) >= 1 /\ t[1] = "[" /\ ~Contains(t, "]")

IsCredentialsHeader(line) ==
  ~IsSkipped(line) /\ MatchCredentialsHeader(Trim(line)) # Undefined

IsConfigHeader(line) ==
  ~IsSkipped(line) /\ MatchConfigHeader(Trim(line)) # Undefined

\* The text before and after the first "=" of a line, both trimmed.
LineKey(line) ==
  LET t == Trim(line) IN Trim(SubSeq(t, 1, IndexFrom(t, "=", 1) - 1))

LineValue(line) ==
  LET t == Trim(line) IN Trim(SubSeq(t, IndexFrom(t, "=", 1) + 1, Len(t)))

\* A line "key=value" that is no comment: a non-empty key before the first
\* "=", and a value without line terminator inside.
IsKeyValue(line) ==
  LET t == Trim(line)
  IN  /\ ~IsSkipped(line)
      /\ IndexFrom(t, "=", 1) >= 2
      /\ \A j \in 1..Len(t) : t[j] \notin LineTerminators

\* The value of the last line after line i that gives the key, if any.
FieldAfter(ls, i, key) ==
  LET given == { k \in (i + 1)..Len(ls) :
                   IsKeyValue(ls[k]) /\ LineKey(ls[k]) = key }
  IN  IF given = {} THEN Undefined
      ELSE Some(LineValue(ls[CHOOSE k \in given : \A k2 \in given : k2 <= k]))

(***************************************************************************)
(* C14  Malformed tolerance: a header line without its closing bracket     *)
(* ("[section") starts no section and creates no entry: the credentials    *)
(* file parses as it does without such lines; a well-formed header after   *)
(* it still gives its entry, with the keys of its block; and list() prints *)
(* that profile with region "not set" when the config file has no entry    *)
(* for it.                                                                 *)
(***************************************************************************)
NotSetLine(n) ==
  (IF n = <<"d","e","f","a","u","l","t">> THEN <<"*"," ">> ELSE <<" "," ">>)
    \o n
    \o <<" ","(","r","e","g","i","o","n",":"," ","n","o","t"," ","s","e","t",")">>

MalformedTolerance ==
  LET ls == CredentialsLines
      parsed == CredentialsOf(ls)
  IN  (last.op = "list") =>
      /\ parsed = CredentialsOf(SelectSeq(ls, LAMBDA l : ~IsUnterminated(l)))
      /\ \A i \in 1..Len(ls) :
           IsUnterminated(ls[i])
           => CredentialsRun(SubSeq(ls, 1, i))
                = CredentialsRun(SubSeq(ls, 1, i - 1))
      /\ \A i \in 1..Len(ls) :
           IsCredentialsHeader(ls[i])
           => LET n == SubSeq(Trim(ls[i]), 2, Len(Trim(ls[i])) - 1)
              IN  /\ Has(parsed, n)
                  /\ (\A k \in (i + 1)..Len(ls) : ~IsCredentialsHeader(ls[k]))
                     => /\ ValueOf(parsed, n).accessKeyId
                             = FieldAfter(ls, i, KeyAccessKeyId)
                        /\ ValueOf(parsed, n).secretAccessKey
                             = FieldAfter(ls, i, KeySecretAccessKey)
      /\ \A n \in NamesOf(parsed) :
           ~Has(ConfigBefore, n)
           => \E k \in 1..Len(last.out) :
                /\ last.out[k].msg = ProfileLineTemplate
                /\ last.out[k].text = NotSetLine(n)

\* A header without closing bracket, then a well-formed block with both
\* keys, listed without config entry.
MalformedToleranceWitness ==
  LET ls == CredentialsLines
  IN  /\ last.op = "list"
      /\ configFile = Undefined
      /\ Len(ls) >= 4
      /\ IsUnterminated(ls[1])
      /\ IsCredentialsHeader(ls[2])
      /\ CredentialsOf(ls) =
           <<Entry(Prod, Some(Key1), Some(Secret1), Undefined)>>
      /\ Printed(ProfileLineTemplate)

(***************************************************************************)
(* C15  Comment and blank-line resilience: for the credentials and for the *)
(* config parser, inserting an empty or blank line, or a line whose        *)
(* trimmed text starts with "#", at any position of a file, and removing   *)
(* such lines, does not change the parsed mapping.                         *)
(***************************************************************************)
SkippedLines ==
  { <<" ">>,
    <<" ","#","[","d","e","v","]">> }

InsertAt(ls, p, line) ==
  SubSeq(ls, 1, p) \o <<line>> \o SubSeq(ls, p + 1, Len(ls))

Unskipped(ls) == SelectSeq(ls, LAMBDA l : ~IsSkipped(l))

\* Inserting line c after the first p lines: the parser is in the same
\* state after the inserted line as before it, so the lines that follow
\* are parsed as they were.
CommentBlankResilience ==
  LET cls == CredentialsLines
      fls == ConfigLines
  IN  (last.op = "list") =>
      /\ CredentialsOf(Unskipped(cls)) = CredentialsOf(cls)
      /\ \A p \in 0..Len(cls) :
           LET st == CredentialsRun(SubSeq(cls, 1, p))
           IN  \A c \in SkippedLines :
                 CredentialsLine(st, c) = st
      /\ ConfigOf(Unskipped(fls)) = ConfigOf(fls)
      /\ \A p \in 0..Len(fls) :
           LET st == ConfigRun(SubSeq(fls, 1, p))
           IN  \A c \in SkippedLines :
                 ConfigLine(st, c) = st

\* A config file with comments between a header and its region line and
\* an empty line at its end.
CommentBlankResilienceWitness ==
  LET ls == ConfigLines
  IN  /\ last.op = "list"
      /\ Len(ls) = 5
      /\ IsConfigHeader(ls[1])
      /\ ls[2] = CommentLine
      /\ ls[3] = CommentLine
      /\ IsKeyValue(ls[4])
      /\ ls[5] = <<>>
      /\ ConfigOf(ls) = <<Entry(Prod, Undefined, Undefined, Some(UsWest2))>>
      /\ Len(Unskipped(CredentialsLines)) < Len(CredentialsLines)

(***************************************************************************)
(* C18  Key/value application: a "key = value" line changes the mapping    *)
(* only when a section is current (a header came before it) and its        *)
(* trimmed key is one the file kind knows (aws_access_key_id and           *)
(* aws_secret_access_key for credentials, region for config); it then sets *)
(* that field of the current section to the trimmed value and nothing      *)
(* else; before any header, or with another key, the mapping is unchanged. *)
(***************************************************************************)
\* The name of the last credentials header among the first i lines, if any.
CredentialsSection(ls, i) ==
  LET hs == { j \in 1..i : IsCredentialsHeader(ls[j]) }
  IN  IF hs = {} THEN Undefined
      ELSE Some(MatchCredentialsHeader(
                  Trim(ls[CHOOSE j \in hs : \A j2 \in hs : j2 <= j]))[1])

ConfigSection(ls, i) ==
  LET hs == { j \in 1..i : IsConfigHeader(ls[j]) }
  IN  IF hs = {} THEN Undefined
      ELSE Some(MatchConfigHeader(
                  Trim(ls[CHOOSE j \in hs : \A j2 \in hs : j2 <= j]))[1])

\* The record with the field of a key set to a value.
WithField(val, key, value) ==
  IF key = <<"a","w","s","_","a","c","c","e","s","s","_","k","e","y","_","i","d">>
  THEN [val EXCEPT !.accessKeyId = Some(value)]
  ELSE IF key = <<"a","w","s","_","s","e","c","r","e","t","_",
                  "a","c","c","e","s","s","_","k","e","y">>
  THEN [val EXCEPT !.secretAccessKey = Some(value)]
  ELSE [val EXCEPT !.region = Some(value)]

\* before and after are the mappings before and after the line.
Applied(before, after, section, known, line) ==
  IF section # Undefined /\ LineKey(line) \in known
  THEN /\ NameSeq(after) = NameSeq(before)
       /\ \A k \in 1..Len(before) :
            after[k].val =
              IF before[k].name = section[1]
              THEN WithField(before[k].val, LineKey(line), LineValue(line))
              ELSE before[k].val
  ELSE after = before

KeyValueApplication ==
  LET cls == CredentialsLines
      fls == ConfigLines
  IN  (last.op = "list") =>
      /\ \A i \in 1..Len(cls) :
           (IsKeyValue(cls[i]) /\ ~IsCredentialsHeader(cls[i]))
           => Applied(CredentialsOf(SubSeq(cls, 1, i - 1)),
                      CredentialsOf(SubSeq(cls, 1, i)),
                      CredentialsSection(cls, i - 1),
                      {KeyAccessKeyId, KeySecretAccessKey}, cls[i])
      /\ \A i \in 1..Len(fls) :
           (IsKeyValue(fls[i]) /\ ~IsConfigHeader(fls[i]))
           => Applied(ConfigOf(SubSeq(fls, 1, i - 1)),
                      ConfigOf(SubSeq(fls, 1, i)),
                      ConfigSection(fls, i - 1), {KeyRegion}, fls[i])

\* A key line before any header, then a header, a key line with blanks
\* around the value, and a key the tool does not know.
KeyValueApplicationWitness ==
  LET ls == CredentialsLines
  IN  /\ last.op = "list"
      /\ Len(ls) = 5
      /\ IsKeyValue(ls[1])
      /\ LineKey(ls[1]) = KeySecretAccessKey
      /\ IsCredentialsHeader(ls[2])
      /\ IsKeyValue(ls[3])
      /\ LineKey(ls[3]) = KeyAccessKeyId
      /\ IsKeyValue(ls[4])
      /\ LineKey(ls[4]) = <<"r","o","l","e">>
      /\ CredentialsOf(ls) = <<Entry(Prod, Some(Key1), Undefined, Undefined)>>

(***************************************************************************)
(* C19  Repeated section headers: each header line gives its name an empty *)
(* record, replacing the record an earlier header of that name had built   *)
(* (no merge), so that the parsed entry holds only the fields given after  *)
(* the last header of its name; in the config file "[default]" and         *)
(* "[profile default]" both name "default" and follow the same rule.       *)
(***************************************************************************)
NoFields == [accessKeyId |-> <<>>, secretAccessKey |-> <<>>, region |-> <<>>]

\* before and after are the mappings before and after a header line of n.
Restarted(before, after, n) ==
  /\ NamesOf(after) = NamesOf(before) \cup {n}
  /\ Len(after) = Cardinality(NamesOf(after))
  /\ ValueOf(after, n) = NoFields
  /\ \A m \in NamesOf(before) \ {n} : ValueOf(after, m) = ValueOf(before, m)

\* The last line of ls that is a header of n under the matcher.
LastHeader(ls, Match(_), n) ==
  CHOOSE j \in 1..Len(ls) :
    /\ ~IsSkipped(ls[j])
    /\ Match(Trim(ls[j])) = Some(n)
    /\ \A k \in (j + 1)..Len(ls) :
         IsSkipped(ls[k]) \/ Match(Trim(ls[k])) # Some(n)

DefaultHeaders ==
  { <<"[","d","e","f","a","u","l","t","]">>,
    <<"[","p","r","o","f","i","l","e"," ","d","e","f","a","u","l","t","]">> }

RepeatedHeaders ==
  LET cls == CredentialsLines
      fls == ConfigLines
      credentials == CredentialsOf(cls)
      config == ConfigOf(fls)
  IN  (last.op = "list") =>
      /\ \A i \in 1..Len(cls) :
           IsCredentialsHeader(cls[i])
           => Restarted(CredentialsOf(SubSeq(cls, 1, i - 1)),
                        CredentialsOf(SubSeq(cls, 1, i)),
                        MatchCredentialsHeader(Trim(cls[i]))[1])
      /\ \A n \in NamesOf(credentials) :
           ValueOf(credentials, n) =
             ValueOf(CredentialsOf(
                       SubSeq(cls, LastHeader(cls, MatchCredentialsHeader, n),
                              Len(cls))), n)
      /\ \A i \in 1..Len(fls) :
           IsConfigHeader(fls[i])
           => Restarted(ConfigOf(SubSeq(fls, 1, i - 1)),
                        ConfigOf(SubSeq(fls, 1, i)),
                        MatchConfigHeader(Trim(fls[i]))[1])
      /\ \A n \in NamesOf(config) :
           ValueOf(config, n) =
             ValueOf(ConfigOf(SubSeq(fls, LastHeader(fls, MatchConfigHeader, n),
                                     Len(fls))), n)
      /\ \A i \in 1..Len(fls) :
           Trim(fls[i]) \in DefaultHeaders
           => /\ ConfigRun(SubSeq(fls, 1, i)).currentProfile
                   = <<"d","e","f","a","u","l","t">>
              /\ Has(config, <<"d","e","f","a","u","l","t">>)

\* [prod] with a key, then [prod] again with the other key: only the other
\* key is kept.
RepeatedHeadersWitness ==
  LET ls == CredentialsLines
  IN  /\ last.op = "list"
      /\ Len(ls) = 5
      /\ IsCredentialsHeader(ls[1])
      /\ ls[3] = ls[1]
      /\ LineKey(ls[2]) = KeyAccessKeyId
      /\ LineKey(ls[4]) = KeySecretAccessKey
      /\ CredentialsOf(ls) = <<Entry(Prod, Undefined, Some(Secret1), Undefined)>>

(***************************************************************************)
(* Two invocations at the same time.  Nothing in the tool coordinates      *)
(* them: each makes its file-system calls in program order, and the calls  *)
(* of the two interleave in any way.  parseCredentialsFile and             *)
(* parseConfigFile read a file in one call (existsSync and readFileSync;   *)
(* files are never deleted, so the pair acts as one read).  writeFileSync  *)
(* is two calls: it opens the file, which creates it or truncates it to    *)
(* nothing, and then writes the content at the start of the file.          *)
(***************************************************************************)
RaceProcs == {1, 2}

\* The commands an invocation may be running.
RaceCommands ==
  { [op |-> "add", profileName |-> Prod,
     answers |-> [accessKeyId |-> <<" ">> \o Key2,
                  secretAccessKey |-> Secret2 \o <<" ">>,
                  region |-> EuWest1 \o <<" ">>]],
    [op |-> "add", profileName |-> Sso,
     answers |-> [accessKeyId |-> Key1, secretAccessKey |-> Secret1,
                  region |-> UsWest2]],
    [op |-> "use", profileName |-> Prod, answers |-> NoAnswers],
    [op |-> "use", profileName |-> Extra, answers |-> NoAnswers],
    [op |-> "remove", profileName |-> Dev, answers |-> NoAnswers] }

\* The files the two find.
RaceCredentials ==
  CredentialsContent(<<Entry(Prod, Some(Key1), Some(Secret1), Undefined),
                       Entry(Dev, Some(Key2), Some(Secret2), Undefined)>>)

RaceConfig ==
  ConfigContent(<<Entry(Prod, Undefined, Undefined, Some(UsWest2)),
                  Entry(Dev, Undefined, Undefined, Some(EuWest1))>>)

\* An invocation before its first file-system call.
RaceStart(cmd) ==
  [cmd |-> cmd, pc |-> "readCredentials", credentials |-> <<>>,
   config |-> <<>>, wrote |-> [credentials |-> Undefined, config |-> Undefined],
   exitCode |-> 0]

RaceInit ==
  /\ \/ /\ credentialsFile = Undefined
        /\ configFile = Undefined
        /\ awsDirExists \in BOOLEAN
     \/ /\ credentialsFile = Some(RaceCredentials)
        /\ configFile = Some(RaceConfig)
        /\ awsDirExists = TRUE
  /\ history = <<>>
  /\ \E c1 \in RaceCommands, c2 \in RaceCommands :
       race = [procs |-> <<RaceStart(c1), RaceStart(c2)>>, log |-> <<>>]

\* Process p goes on as rec, having made the call on the file.
RaceCall(p, rec, call, file) ==
  race' = [procs |-> [race.procs EXCEPT ![p] = rec],
           log |-> Append(race.log, [proc |-> p, call |-> call, file |-> file])]

\* A faulty variant: the content is written after what the file holds.
WriteAtEnd(content, data) == content \o data

\* write(fd, data) at the start of a file that holds content.
WriteAtStart(content, data) ==
  data \o SubSeq(content, Len(data) + 1, Len(content))

\* The mapping the command makes of the mapping it read.
RaceCredentialsHeld(rec) ==
  CASE rec.cmd.op = "add" ->
         AddedCredentials(rec.credentials, rec.cmd.profileName, rec.cmd.answers)
    [] rec.cmd.op = "use" ->
         UsedCredentials(rec.credentials, rec.cmd.profileName)
    [] OTHER -> ObjDelete(rec.credentials, rec.cmd.profileName)

RaceConfigHeld(rec) ==
  CASE rec.cmd.op = "add" ->
         AddedConfig(rec.config, rec.cmd.profileName, rec.cmd.answers)
    [] rec.cmd.op = "use" -> UsedConfig(rec.config, rec.cmd.profileName)
    [] OTHER -> ObjDelete(rec.config, rec.cmd.profileName)

\* parseCredentialsFile()
RaceReadCredentials(p) ==
  LET rec == race.procs[p]
  IN  /\ rec.pc = "readCredentials"
      /\ RaceCall(p, [rec EXCEPT
                        !.credentials = parseCredentialsFile(credentialsFile),
                        !.pc = "readConfig"],
                  "read", "credentials")
      /\ UNCHANGED <<awsDirExists, credentialsFile, configFile, history>>

\* parseConfigFile(), then the not-found test of use and remove (an
\* invocation that finds no such profile writes nothing; the listing use
\* prints before it exits reads the files again and is left out)
RaceReadConfig(p) ==
  LET rec == race.procs[p]
      found == \/ rec.cmd.op = "add"
               \/ ObjGet(rec.credentials, rec.cmd.profileName) # Undefined
  IN  /\ rec.pc = "readConfig"
      /\ RaceCall(p, [rec EXCEPT
                        !.config = parseConfigFile(configFile),
                        !.pc = IF found THEN "openCredentials" ELSE "done",
                        !.exitCode = IF ~found /\ rec.cmd.op = "use"
                                     THEN 1 ELSE 0],
                  "read", "config")
      /\ UNCHANGED <<awsDirExists, credentialsFile, configFile, history>>

\* writeCredentialsFile: ensureAwsDirectory(), then writeFileSync opens
RaceOpenCredentials(p) ==
  LET rec == race.procs[p]
  IN  /\ rec.pc = "openCredentials"
      /\ awsDirExists' = TRUE
      /\ credentialsFile' = Some(<<>>)
      /\ RaceCall(p, [rec EXCEPT !.pc = "writeCredentials"],
                  "open", "credentials")
      /\ UNCHANGED <<configFile, history>>

\* writeCredentialsFile: writeFileSync writes
RaceWriteCredentials(p) ==
  LET rec == race.procs[p]
      data == CredentialsContent(RaceCredentialsHeld(rec))
  IN  /\ rec.pc = "writeCredentials"
      /\ credentialsFile' = Some(WriteAtStart(credentialsFile[1], data))
      /\ RaceCall(p, [rec EXCEPT !.pc = "openConfig",
                                 !.wrote.credentials = Some(data)],
                  "write", "credentials")
      /\ UNCHANGED <<awsDirExists, configFile, history>>

\* writeConfigFile: ensureAwsDirectory(), then writeFileSync opens
RaceOpenConfig(p) ==
  LET rec == race.procs[p]
  IN  /\ rec.pc = "openConfig"
      /\ awsDirExists' = TRUE
      /\ configFile' = Some(<<>>)
      /\ RaceCall(p, [rec EXCEPT !.pc = "writeConfig"], "open", "config")
      /\ UNCHANGED <<credentialsFile, history>>

\* writeConfigFile: writeFileSync writes
RaceWriteConfig(p) ==
  LET rec == race.procs[p]
      data == ConfigContent(RaceConfigHeld(rec))
  IN  /\ rec.pc = "writeConfig"
      /\ configFile' = Some(WriteAtStart(configFile[1], data))
      /\ RaceCall(p, [rec EXCEPT !.pc = "done", !.wrote.config = Some(data)],
                  "write", "config")
      /\ UNCHANGED <<awsDirExists, credentialsFile, history>>

RaceNext ==
  \E p \in RaceProcs :
    \/ RaceReadCredentials(p)
    \/ RaceReadConfig(p)
    \/ RaceOpenCredentials(p)
    \/ RaceWriteCredentials(p)
    \/ RaceOpenConfig(p)
    \/ RaceWriteConfig(p)

SpecRace == RaceInit /\ [][RaceNext]_vars

(***************************************************************************)
(* C13  Last writer wins under concurrent invocations: when two            *)
(* invocations each run a mutating operation on the same two files, with   *)
(* their reads and writes interleaved in any way, then after both are done *)
(* the credentials file and the config file are both as one single         *)
(* invocation wrote them, the one that wrote last; the pair never holds    *)
(* the credentials file of one with the config file of the other.          *)
(***************************************************************************)
BothWrote ==
  /\ race.procs # <<>>
  /\ \A p \in RaceProcs :
       /\ race.procs[p].pc = "done"
       /\ race.procs[p].wrote.credentials # Undefined
       /\ race.procs[p].wrote.config # Undefined

\* The place in the log of the call of p on the file.
CallAt(p, call, file) ==
  CHOOSE i \in 1..Len(race.log) :
    race.log[i] = [proc |-> p, call |-> call, file |-> file]

\* The invocation whose write to the file came last.
LastWriter(file) ==
  CHOOSE p \in RaceProcs :
    \A q \in RaceProcs : CallAt(q, "write", file) <= CallAt(p, "write", file)

LastWriterWins ==
  BothWrote
  => LET w == LastWriter("config")
     IN  /\ credentialsFile = race.procs[w].wrote.credentials
         /\ configFile = race.procs[w].wrote.config

(***************************************************************************)
(* C13, as the code has it: after both are done, each file by itself is as *)
(* the invocation that wrote that file last wrote it; when the write of    *)
(* the other invocation fell between that invocation's opening of the file *)
(* and its write, its content is followed by what of the other's content   *)
(* lies beyond its length.  The last writer of the credentials file need   *)
(* not be the last writer of the config file.                              *)
(***************************************************************************)
Other(p) == CHOOSE q \in RaceProcs : q # p

\* What the file holds once its last writer w has written.
LeftBy(w, file) ==
  LET data == race.procs[w].wrote[file][1]
      other == race.procs[Other(w)].wrote[file][1]
  IN  IF CallAt(w, "open", file) < CallAt(Other(w), "write", file)
      THEN data \o SubSeq(other, Len(data) + 1, Len(other))
      ELSE data

LastWriterPerFile ==
  BothWrote
  => /\ credentialsFile
          = Some(LeftBy(LastWriter("credentials"), "credentials"))
     /\ configFile = Some(LeftBy(LastWriter("config"), "config"))

\* Both are done, the credentials file is as one wrote it and the config
\* file as the other did, and the two wrote different contents.
LastWriterPerFileWitness ==
  /\ BothWrote
  /\ LastWriter("credentials") # LastWriter("config")
  /\ credentialsFile = race.procs[LastWriter("credentials")].wrote.credentials
  /\ configFile = race.procs[LastWriter("config")].wrote.config
  /\ race.procs[1].wrote.credentials # race.procs[2].wrote.credentials
  /\ race.procs[1].wrote.config # race.procs[2].wrote.config

\* The last writer's content followed by the end of the other's.
LastWriterTailWitness ==
  /\ BothWrote
  /\ credentialsFile
       # race.procs[LastWriter("credentials")].wrote.credentials

(***************************************************************************)
(* The store over any number of invocations.  Invocations run one at a     *)
(* time on files that are absent or empty at the start; of the record of   *)
(* invocations only the last one is kept, so that a behaviour may go on    *)
(* for as long as it finds files it has not seen.                          *)
(***************************************************************************)
StoreFinish(op, profileName, answers, confirm, r) ==
  /\ awsDirExists' = r.awsDir
  /\ credentialsFile' = r.credentials
  /\ configFile' = r.config
  /\ race' = race
  /\ history' =
       <<[op |-> op, profileName |-> profileName, answers |-> answers,
          confirm |-> confirm,
          before |-> [awsDir |-> awsDirExists,
                      credentials |-> credentialsFile,
                      config |-> configFile],
          out |-> r.out, prompts |-> r.prompts, mkdirs |-> r.mkdirs,
          writes |-> r.writes, exitCode |-> r.exitCode]>>

StoreInit ==
  /\ credentialsFile \in {Undefined, Some(<<>>)}
  /\ configFile \in {Undefined, Some(<<>>)}
  /\ awsDirExists \in BOOLEAN
  /\ (credentialsFile # Undefined \/ configFile # Undefined) => awsDirExists
  /\ history = <<>>
  /\ race = NoRace

StoreAdd ==
  \E profileName \in ProfileArgs, answers \in AnswerPool :
    /\ AnswersValid(answers)
    /\ StoreFinish("add", profileName, answers, FALSE,
                   addProfile(StartRun, profileName, answers))

StoreUse ==
  \E profileName \in ProfileArgs :
    StoreFinish("use", profileName, NoAnswers, FALSE,
                useProfile(StartRun, profileName))

StoreList ==
  StoreFinish("list", <<>>, NoAnswers, FALSE, listProfiles(StartRun))

StoreRemove ==
  \E profileName \in ProfileArgs, confirm \in BOOLEAN :
    StoreFinish("remove", profileName, NoAnswers, confirm,
                removeProfile(StartRun, profileName, confirm))

StoreNext == StoreAdd \/ StoreUse \/ StoreList \/ StoreRemove

SpecStore == StoreInit /\ [][StoreNext]_vars

(***************************************************************************)
(* C21  Store consistency: from empty or absent files, after any sequence  *)
(* of completed add, use, list and remove invocations run one at a time,   *)
(* the credentials file and the config file hold the same names, every     *)
(* credentials entry has a non-empty accessKeyId and secretAccessKey, and  *)
(* every config entry has a non-empty region.                              *)
(***************************************************************************)
NonEmptyField(x) == x # Undefined /\ x[1] # <<>>

StoreConsistency ==
  /\ NamesOf(SecretsAfter) = NamesOf(ConfigAfter)
  /\ \A i \in 1..Len(SecretsAfter) :
       /\ NonEmptyField(SecretsAfter[i].val.accessKeyId)
       /\ NonEmptyField(SecretsAfter[i].val.secretAccessKey)
  /\ \A i \in 1..Len(ConfigAfter) : NonEmptyField(ConfigAfter[i].val.region)

\* The same of the files the last invocation found.
StoreConsistencyBefore ==
  /\ NamesOf(SecretsBefore) = NamesOf(ConfigBefore)
  /\ \A i \in 1..Len(SecretsBefore) :
       /\ NonEmptyField(SecretsBefore[i].val.accessKeyId)
       /\ NonEmptyField(SecretsBefore[i].val.secretAccessKey)
  /\ \A i \in 1..Len(ConfigBefore) : NonEmptyField(ConfigBefore[i].val.region)

\* What does hold of the code: an invocation keeps the store consistent
\* unless it is a use of a name that Object.prototype defines and the
\* credentials file does not hold.
StoreConsistencyOwn ==
  ( /\ history # <<>>
    /\ StoreConsistencyBefore
    /\ ~( /\ last.op = "use"
          /\ last.profileName \in ObjectPrototypeProps
          /\ ~Has(SecretsBefore, last.profileName) ) )
  => StoreConsistency

(***************************************************************************)
(* The parsers on files with headers that are not well formed: a           *)
(* credentials or a config file of up to MaxLines lines drawn from a pool  *)
(* of headers, headers without closing bracket, and two lines with         *)
(* different values for one key, then `aws-auth list`.                     *)
(***************************************************************************)
UnterminatedConfigHeader == <<"[">> \o ProfilePrefix \o Prod

SectionCredentialsPool ==
  { <<"[">> \o Prod \o <<"]">>,
    <<"[">> \o Dev \o <<"]">>,
    UnterminatedHeader,
    KeyAccessKeyId \o Assign \o Key1,
    KeyAccessKeyId \o <<"=">> \o Key2,
    KeySecretAccessKey \o Assign \o Secret1 }

SectionConfigPool ==
  { <<"[">> \o DefaultName \o <<"]">>,
    <<"[">> \o ProfilePrefix \o Prod \o <<"]">>,
    UnterminatedConfigHeader,
    KeyRegion \o Assign \o UsWest2,
    <<" ">> \o KeyRegion \o <<"=">> \o EuWest1,
    <<"o","u","t","p","u","t"," ","="," ","j","s","o","n">> }

SectionsInit ==
  /\ \/ /\ credentialsFile
             \in {Some(t) : t \in FileTexts(SectionCredentialsPool)}
        /\ configFile = Undefined
     \/ /\ credentialsFile = Some(PlainCredentials)
        /\ configFile \in {Some(t) : t \in FileTexts(SectionConfigPool)}
  /\ awsDirExists = TRUE
  /\ history = <<>>
  /\ race = NoRace

SectionsNext == FilesList

SpecSections == SectionsInit /\ [][SectionsNext]_vars

(***************************************************************************)
(* C22  Current-section persistence: in both parsers only a well-formed    *)
(* header line changes the current section, which is therefore the name of *)
(* the last well-formed header read so far (none before the first); after  *)
(* a line that is no well-formed header, such as "[section" without its    *)
(* closing bracket, a recognized key line sets its field in that section,  *)
(* replacing the value the field had, and is dropped only when no          *)
(* well-formed header has been read yet.                                   *)
(***************************************************************************)
\* The current section the text of a section name stands for.
SectionText(section) == IF section = Undefined THEN <<>> ELSE section[1]

\* The field of a record that a recognized key sets.
FieldOf(val, key) ==
  IF key = <<"a","w","s","_","a","c","c","e","s","s","_","k","e","y","_","i","d">>
  THEN val.accessKeyId
  ELSE IF key = <<"a","w","s","_","s","e","c","r","e","t","_",
                  "a","c","c","e","s","s","_","k","e","y">>
  THEN val.secretAccessKey
  ELSE val.region

\* b and a are the states of a parser before and after a line, section the
\* name of the last well-formed header before the line, if any.
SectionKept(b, a, isHeader, section, known, line) ==
  /\ b.currentProfile = SectionText(section)
  /\ ~isHeader => a.currentProfile = b.currentProfile
  /\ (~isHeader /\ IsKeyValue(line) /\ LineKey(line) \in known)
     => IF section = Undefined
        THEN a.profiles = b.profiles
        ELSE /\ Has(a.profiles, section[1])
             /\ FieldOf(ValueOf(a.profiles, section[1]), LineKey(line))
                  = Some(LineValue(line))

\* The lines from line i on keep the section, the credentials parser being
\* in state st before line i.
RECURSIVE CredentialsSectionKept(_, _, _, _)
CredentialsSectionKept(st, section, ls, i) ==
  IF i > Len(ls) THEN st.currentProfile = SectionText(section)
  ELSE LET after == CredentialsLine(st, ls[i])
           isHeader == IsCredentialsHeader(ls[i])
       IN  /\ SectionKept(st, after, isHeader, section,
                          {KeyAccessKeyId, KeySecretAccessKey}, ls[i])
           /\ CredentialsSectionKept(
                after,
                IF isHeader THEN MatchCredentialsHeader(Trim(ls[i]))
                ELSE section,
                ls, i + 1)

RECURSIVE ConfigSectionKept(_, _, _, _)
ConfigSectionKept(st, section, ls, i) ==
  IF i > Len(ls) THEN st.currentProfile = SectionText(section)
  ELSE LET after == ConfigLine(st, ls[i])
           isHeader == IsConfigHeader(ls[i])
       IN  /\ SectionKept(st, after, isHeader, section, {KeyRegion}, ls[i])
           /\ ConfigSectionKept(
                after,
                IF isHeader THEN MatchConfigHeader(Trim(ls[i])) ELSE section,
                ls, i + 1)

CurrentSectionPersistence ==
  (last.op = "list") =>
  /\ CredentialsSectionKept(ParseStart, Undefined, CredentialsLines, 1)
  /\ ConfigSectionKept(ParseStart, Undefined, ConfigLines, 1)

\* A config block with its region, then a header without closing bracket
\* and another region line: the block has the second region.
CurrentSectionPersistenceWitness ==
  LET ls == ConfigLines
  IN  /\ last.op = "list"
      /\ Len(ls) = 5
      /\ IsConfigHeader(ls[1])
      /\ IsKeyValue(ls[2])
      /\ LineValue(ls[2]) = UsWest2
      /\ IsUnterminated(ls[3])
      /\ IsKeyValue(ls[4])
      /\ ConfigOf(ls) = <<Entry(Prod, Undefined, Undefined, Some(EuWest1))>>

(***************************************************************************)
(* C23  Canonicalising rewrite: after a successful add, use or confirmed   *)
(* remove each file holds nothing but canonical lines (the headers of the  *)
(* mapping the operation holds, "key = value" lines of the keys the file   *)
(* kind knows, empty lines); no comment line, line of an unknown key or    *)
(* other unparsed line the file held before the call is in it; and the     *)
(* block of every profile the operation does not touch gives the fields    *)
(* the profile had.                                                        *)
(***************************************************************************)
LinesOfFile(file) == IF file = Undefined THEN <<>> ELSE SplitLines(file[1])

\* A line that is not blank and that the parser takes nothing from.
UnparsedLine(line, isHeader, known) ==
  /\ Trim(line) # <<>>
  /\ \/ IsSkipped(line)
     \/ ~isHeader /\ ~(IsKeyValue(line) /\ LineKey(line) \in known)

CanonicalKeyLine(line, key) ==
  LET head == key \o <<" ", "=", " ">>
  IN  Len(line) >= Len(head) /\ SubSeq(line, 1, Len(head)) = head

CanonicalCredentialsLine(line) ==
  \/ line = <<>>
  \/ \E k \in 1..Len(SecretsHeld) :
       line = <<"[">> \o SecretsHeld[k].name \o <<"]">>
  \/ CanonicalKeyLine(line, KeyAccessKeyId)
  \/ CanonicalKeyLine(line, KeySecretAccessKey)

CanonicalConfigLine(line) ==
  \/ line = <<>>
  \/ \E k \in 1..Len(ConfigHeld) : line = ExpectedHeader(ConfigHeld[k].name)
  \/ CanonicalKeyLine(line, KeyRegion)

\* A profile the operation neither adds, removes nor overwrites.
Untouched(n) ==
  /\ n # last.profileName
  /\ ~(last.op = "use" /\ n = DefaultName)

CanonicalRewrite ==
  LET cOld == LinesOfFile(last.before.credentials)
      cNew == LinesOfFile(credentialsFile)
      fOld == LinesOfFile(last.before.config)
      fNew == LinesOfFile(configFile)
  IN  Succeeded =>
      /\ \A j \in 1..Len(cNew) : CanonicalCredentialsLine(cNew[j])
      /\ \A j \in 1..Len(fNew) : CanonicalConfigLine(fNew[j])
      /\ \A i \in 1..Len(cOld) :
           UnparsedLine(cOld[i], IsCredentialsHeader(cOld[i]),
                        {KeyAccessKeyId, KeySecretAccessKey})
           => \A j \in 1..Len(cNew) : cNew[j] # cOld[i]
      /\ \A i \in 1..Len(fOld) :
           UnparsedLine(fOld[i], IsConfigHeader(fOld[i]), {KeyRegion})
           => \A j \in 1..Len(fNew) : fNew[j] # fOld[i]
      /\ \A k \in 1..Len(SecretsBefore) :
           LET e == SecretsBefore[k]
           IN  Untouched(e.name)
               => \E j \in 1..(Len(cNew) - 3) :
                    /\ cNew[j] = <<"[">> \o e.name \o <<"]">>
                    /\ CanonicalKeyLine(cNew[j + 1], KeyAccessKeyId)
                    /\ CanonicalKeyLine(cNew[j + 2], KeySecretAccessKey)
                    /\ cNew[j + 3] = <<>>
                    /\ e.val.accessKeyId # Undefined
                       => cNew[j + 1] = KeyAccessKeyId \o <<" ", "=", " ">>
                                          \o e.val.accessKeyId[1]
                    /\ e.val.secretAccessKey # Undefined
                       => cNew[j + 2] = KeySecretAccessKey \o <<" ", "=", " ">>
                                          \o e.val.secretAccessKey[1]
      /\ \A k \in 1..Len(ConfigBefore) :
           LET e == ConfigBefore[k]
           IN  Untouched(e.name)
               => \E j \in 1..(Len(fNew) - 1) :
                    /\ fNew[j] = ExpectedHeader(e.name)
                    /\ IF e.val.region \in {Undefined, Some(<<>>)}
                       THEN fNew[j + 1] = <<>>
                       ELSE /\ fNew[j + 1] = KeyRegion \o <<" ", "=", " ">>
                                               \o e.val.region[1]
                            /\ j + 2 <= Len(fNew)
                            /\ fNew[j + 2] = <<>>

\* What does hold of the code: the same, unless the operation adds a name
\* holding "]", whose header no parser reads (C1): added twice, the header
\* the file held unparsed is written again.
CanonicalRewriteOrdinary ==
  (last.op = "add" => ~Contains(last.profileName, "]")) => CanonicalRewrite

\* An add on the two files edited by hand: comments, an unknown key, keys
\* written without blanks, and profiles the add does not touch.
CanonicalRewriteOrdinaryWitness ==
  /\ last.op = "add"
  /\ last.profileName = Seven
  /\ last.before.credentials = Some(HandCredentials)
  /\ last.before.config = Some(HandConfig)
  /\ \E i \in 1..Len(LinesOfFile(last.before.credentials)) :
       UnparsedLine(LinesOfFile(last.before.credentials)[i], FALSE,
                    {KeyAccessKeyId, KeySecretAccessKey})
  /\ \E k \in 1..Len(ConfigBefore) :
       Untouched(ConfigBefore[k].name) /\ ConfigBefore[k].val.region # Undefined

(***************************************************************************)
(* One invocation whose file-system calls may fail.  history holds the     *)
(* invocation under way: its command and the files it found.  A call that *)
(* fails throws; nothing in the manager catches, the action of the command *)
(* reports the error and calls process.exit(1).  readFileSync, mkdirSync   *)
(* and the opening of a file by writeFileSync fail without effect; the     *)
(* writing of writeFileSync, on the file already truncated, fails after    *)
(* some part of the content, possibly none, has been written.              *)
(***************************************************************************)
FailureProc == 1

FailureInit ==
  /\ \/ /\ credentialsFile = Undefined
        /\ configFile = Undefined
        /\ awsDirExists \in BOOLEAN
     \/ /\ credentialsFile = Some(RaceCredentials)
        /\ configFile = Some(RaceConfig)
        /\ awsDirExists = TRUE
  /\ \E c \in RaceCommands :
       /\ race = [procs |-> <<RaceStart(c)>>, log |-> <<>>]
       /\ history =
            <<[NoRun EXCEPT !.op = c.op, !.profileName = c.profileName,
                            !.answers = c.answers,
                            !.confirm = (c.op = "remove"),
                            !.before = [awsDir |-> awsDirExists,
                                        credentials |-> credentialsFile,
                                        config |-> configFile]]>>

\* The call of process p on the file throws: the invocation ends with exit
\* code 1.
FailureThrow(p, call, file) ==
  RaceCall(p, [race.procs[p] EXCEPT !.pc = "done", !.exitCode = 1], call, file)

\* readFileSync of the credentials file throws
FailureReadCredentials(p) ==
  /\ race.procs[p].pc = "readCredentials"
  /\ credentialsFile # Undefined
  /\ FailureThrow(p, "read failed", "credentials")
  /\ UNCHANGED <<awsDirExists, credentialsFile, configFile, history>>

\* readFileSync of the config file throws
FailureReadConfig(p) ==
  /\ race.procs[p].pc = "readConfig"
  /\ configFile # Undefined
  /\ FailureThrow(p, "read failed", "config")
  /\ UNCHANGED <<awsDirExists, credentialsFile, configFile, history>>

\* ensureAwsDirectory of writeCredentialsFile: mkdirSync throws
FailureMkdir(p) ==
  /\ race.procs[p].pc = "openCredentials"
  /\ ~awsDirExists
  /\ FailureThrow(p, "mkdir failed", "credentials")
  /\ UNCHANGED <<awsDirExists, credentialsFile, configFile, history>>

\* writeCredentialsFile: the directory is there or made, writeFileSync
\* cannot open the file
FailureOpenCredentials(p) ==
  /\ race.procs[p].pc = "openCredentials"
  /\ awsDirExists' = TRUE
  /\ FailureThrow(p, "open failed", "credentials")
  /\ UNCHANGED <<credentialsFile, configFile, history>>

\* writeCredentialsFile: writeFileSync has opened the file and fails with
\* the first k characters written
FailureWriteCredentials(p) ==
  LET data == CredentialsContent(RaceCredentialsHeld(race.procs[p]))
  IN  /\ race.procs[p].pc = "writeCredentials"
      /\ \E k \in 0..(Len(data) - 1) :
           credentialsFile' =
             Some(WriteAtStart(credentialsFile[1], SubSeq(data, 1, k)))
      /\ FailureThrow(p, "write failed", "credentials")
      /\ UNCHANGED <<awsDirExists, configFile, history>>

\* A faulty variant: when the config file cannot be opened, the credentials
\* file is put back as it was found.
FailureOpenConfigRollback(p) ==
  /\ race.procs[p].pc = "openConfig"
  /\ credentialsFile' = history[1].before.credentials
  /\ FailureThrow(p, "open failed", "config")
  /\ UNCHANGED <<awsDirExists, configFile, history>>

\* writeConfigFile: writeFileSync cannot open the file
FailureOpenConfig(p) ==
  /\ race.procs[p].pc = "openConfig"
  /\ FailureThrow(p, "open failed", "config")
  /\ UNCHANGED <<awsDirExists, credentialsFile, configFile, history>>

\* writeConfigFile: writeFileSync has opened the file and fails with the
\* first k characters written
FailureWriteConfig(p) ==
  LET data == ConfigContent(RaceConfigHeld(race.procs[p]))
  IN  /\ race.procs[p].pc = "writeConfig"
      /\ \E k \in 0..(Len(data) - 1) :
           configFile' = Some(WriteAtStart(configFile[1], SubSeq(data, 1, k)))
      /\ FailureThrow(p, "write failed", "config")
      /\ UNCHANGED <<awsDirExists, credentialsFile, history>>

FailureNext ==
  \/ RaceReadCredentials(FailureProc)
  \/ RaceReadConfig(FailureProc)
  \/ RaceOpenCredentials(FailureProc)
  \/ RaceWriteCredentials(FailureProc)
  \/ RaceOpenConfig(FailureProc)
  \/ RaceWriteConfig(FailureProc)
  \/ FailureReadCredentials(FailureProc)
  \/ FailureReadConfig(FailureProc)
  \/ FailureMkdir(FailureProc)
  \/ FailureOpenCredentials(FailureProc)
  \/ FailureWriteCredentials(FailureProc)
  \/ FailureOpenConfig(FailureProc)
  \/ FailureWriteConfig(FailureProc)

SpecFailure == FailureInit /\ [][FailureNext]_vars

(***************************************************************************)
(* C24  Write ordering and I/O failure: a mutating operation parses both   *)
(* files before it writes, and writes the credentials file before the      *)
(* config file; a failing call ends the invocation, with no retry and no   *)
(* rollback; a failure of the credentials write leaves both files as they  *)
(* were, and a failure of the config write leaves the credentials file     *)
(* with its new content and the config file with its old content.          *)
(***************************************************************************)
FailedCalls == {"read failed", "mkdir failed", "open failed", "write failed"}

WritingCalls == {"open", "write", "mkdir failed", "open failed", "write failed"}

\* Call i of the log is the call on the file.
IsCall(i, call, file) ==
  race.log[i].call = call /\ race.log[i].file = file

\* Both files are parsed before any write, credentials is written before
\* config.
WriteOrdering ==
  \A i \in 1..Len(race.log) :
    /\ race.log[i].call \in WritingCalls
       => /\ \E j \in 1..(i - 1) : IsCall(j, "read", "credentials")
          /\ \E j \in 1..(i - 1) : IsCall(j, "read", "config")
    /\ (race.log[i].call \in WritingCalls /\ race.log[i].file = "config")
       => \E j \in 1..(i - 1) : IsCall(j, "write", "credentials")

\* A failed call is the last call of the invocation, which ends with exit
\* code 1.
FailurePropagated ==
  \A i \in 1..Len(race.log) :
    race.log[i].call \in FailedCalls
    => /\ i = Len(race.log)
       /\ race.procs[FailureProc].pc = "done"
       /\ race.procs[FailureProc].exitCode = 1

\* The last call, a write of the file, failed.
WriteFailed(file) ==
  /\ race.log # <<>>
  /\ race.log[Len(race.log)].file = file
  /\ race.log[Len(race.log)].call \in {"mkdir failed", "open failed", "write failed"}

FailedAt(call, file) ==
  race.log # <<>> /\ IsCall(Len(race.log), call, file)

ProperPrefix(file, data) ==
  /\ file # Undefined
  /\ Len(file[1]) < Len(data)
  /\ file[1] = SubSeq(data, 1, Len(file[1]))

FailureLeavesFiles ==
  /\ WriteOrdering
  /\ FailurePropagated
  /\ WriteFailed("credentials")
     => /\ credentialsFile = last.before.credentials
        /\ configFile = last.before.config
  /\ WriteFailed("config")
     => /\ credentialsFile = Some(CredentialsContent(SecretsHeld))
        /\ configFile = last.before.config

\* As amended: a write that fails after the file has been opened leaves
\* the file with a part of its new content.
FailureLeavesPrefix ==
  /\ WriteOrdering
  /\ FailurePropagated
  /\ WriteFailed("credentials") => configFile = last.before.config
  /\ (FailedAt("mkdir failed", "credentials")
        \/ FailedAt("open failed", "credentials"))
     => credentialsFile = last.before.credentials
  /\ FailedAt("mkdir failed", "credentials") => ~awsDirExists
  /\ FailedAt("write failed", "credentials")
     => ProperPrefix(credentialsFile, CredentialsContent(SecretsHeld))
  /\ WriteFailed("config")
     => credentialsFile = Some(CredentialsContent(SecretsHeld))
  /\ FailedAt("open failed", "config") => configFile = last.before.config
  /\ FailedAt("write failed", "config")
     => ProperPrefix(configFile, ConfigContent(ConfigHeld))
  /\ (FailedAt("read failed", "credentials") \/ FailedAt("read failed", "config"))
     => FilesUnchanged

\* `add prod` on files that hold prod and dev: the config file could not
\* be opened, the credentials file has the new keys of prod, the config
\* file the old region.
FailureLeavesPrefixWitness ==
  /\ FailedAt("open failed", "config")
  /\ last.op = "add"
  /\ last.before.config = Some(RaceConfig)
  /\ credentialsFile # last.before.credentials
  /\ credentialsFile = Some(CredentialsContent(SecretsHeld))
  /\ configFile = Some(RaceConfig)
  /\ race.procs[FailureProc].exitCode = 1

\* `remove dev`: the write of the credentials file failed half way.
FailureTruncatedWitness ==
  /\ FailedAt("write failed", "credentials")
  /\ last.op = "remove"
  /\ credentialsFile # Some(<<>>)
  /\ credentialsFile # last.before.credentials
  /\ configFile = last.before.config
=============================================================================
